---- MODULE Spec2Model ----
(***************************************************************************)
(* PAI AeroNews: the Gemini usage limiter (scripts/usage-limit.js), the    *)
(* analyst-mode run (scripts/analyst-mode.js) and the public pipeline      *)
(* (scripts/fetch-rss.js: merge of manual and RSS articles, generateHTML   *)
(* and generateTakeaway), its feed fetching, webhooks and exit codes       *)
(* (SpecNetwork), and its functions taken one application at a time:       *)
(* normalizeArticle and the manual entries (SpecNormalize), the takeaway   *)
(* request (SpecTakeaway), createFallbackTakeaway (SpecFallback),          *)
(* decodeHtmlEntities (SpecDecode) and the limit on the number of articles *)
(* (SpecLimit).  SpecLoops runs either loop that sends summarization       *)
(* requests; SpecOverlap runs two analyst-mode processes on one counter    *)
(* file.                                                                   *)
(*                                                                         *)
(* The counter file dist/usage-counters.json is external input: it may be  *)
(* absent, unparseable, JSON that is no object, or an object whose date    *)
(* and count hold any JSON value.  JavaScript's coercions on the count     *)
(* (undefined + 1 = NaN, null + 1 = 1, "4" + 1 = "41", NaN stringified as  *)
(* null) are modelled by what they do.  File-system write failures are not *)
(* modelled.                                                               *)
(***************************************************************************)
EXTENDS Integers, Sequences, FiniteSets, TLC

VARIABLES
  file,       \* content of dist/usage-counters.json
  today,      \* the current UTC day (what utcToday() returns), as a day number
  call,       \* SpecLimiter: the last limiter operation, its arguments and result
  run,        \* SpecAnalyst: the analyst-mode process (main and generateAnalystBrief)
  pub,        \* SpecPublic: the public pipeline (main, generateHTML, generateTakeaway)
  net,        \* SpecNetwork: the outbound requests of one public run
  fn,         \* SpecNormalize, SpecFallback, SpecLimit: one application of a function
  ovl         \* SpecOverlap: two analyst-mode runs that share the counter file

vars == <<file, today, call, run, pub, net, fn, ovl>>

-----------------------------------------------------------------------------
(* Bounds of the model *)

MaxDay == 2        \* days the clock can reach: 0..MaxDay
MaxCount == 5      \* numeric counts in the file: 0..MaxCount
MaxCap == 5        \* caps passed to the limiter: 0..MaxCap
MaxArticles == 3   \* articles of one analyst-mode run
MaxStrLen == 3     \* digits of a count that is a string

Days == 0..MaxDay
Caps == 0..MaxCap

-----------------------------------------------------------------------------
(* JavaScript values of the count field *)

NumV(n) == [t |-> "num", s |-> <<>>, v |-> n]
StrV(digits) == [t |-> "str", s |-> digits, v |-> 0]
Undef == [t |-> "undef", s |-> <<>>, v |-> 0]
Null == [t |-> "null", s |-> <<>>, v |-> 0]
NaN == [t |-> "nan", s |-> <<>>, v |-> 0]

\* Number("41") = 41: the value of a string of decimal digits
RECURSIVE DigitsValue(_)
DigitsValue(digits) ==
  IF digits = <<>> THEN 0
  ELSE 10 * DigitsValue(SubSeq(digits, 1, Len(digits) - 1)) + digits[Len(digits)]

\* String(n) for 0 <= n
RECURSIVE NumDigits(_)
NumDigits(n) == IF n < 10 THEN <<n>> ELSE NumDigits(n \div 10) \o <<n % 10>>

\* ToNumber: whether it is NaN, and its value when it is not
IsNaN(a) == a.t \in {"undef", "nan"}
ToNumber(a) ==
  CASE a.t = "num" -> a.v
    [] a.t = "str" -> DigitsValue(a.s)
    [] OTHER -> 0

\* a + k for a number k: string concatenation when a is a string
JSAdd(a, k) ==
  CASE a.t = "num" -> NumV(a.v + k)
    [] a.t = "null" -> NumV(k)
    [] a.t = "str" -> StrV(a.s \o NumDigits(k))
    [] OTHER -> NaN

\* a <= cap for a number cap: false when a converts to NaN
JSLeq(a, cap) == ~IsNaN(a) /\ ToNumber(a) <= cap

\* Math.max(0, cap - used)
JSMaxZeroDiff(cap, used) ==
  IF IsNaN(used) THEN NaN
  ELSE IF cap - ToNumber(used) > 0 THEN NumV(cap - ToNumber(used)) ELSE NumV(0)

\* JSON.stringify writes NaN as null and omits an undefined property
Stringify(a) == IF a.t = "nan" THEN Null ELSE a

\* a parameter default: callsNeeded = 1, count = 1
DefaultTo(a, d) == IF a.t = "undef" THEN NumV(d) ELSE a

-----------------------------------------------------------------------------
(* The counter file *)

NoDate == 0 - 1    \* an object without a date, or with one that is no day
FileDates == Days \cup {NoDate}

Absent == [kind |-> "absent", date |-> NoDate, count |-> Undef]
Garbage == [kind |-> "garbage", date |-> NoDate, count |-> Undef]
JsonNull == [kind |-> "jsonnull", date |-> NoDate, count |-> Undef]
JsonScalar == [kind |-> "scalar", date |-> NoDate, count |-> Undef]
CounterObject(d, c) == [kind |-> "object", date |-> d, count |-> c]

FileCounts ==
  {NumV(n) : n \in 0..MaxCount} \cup {Undef, Null, StrV(<<0>>), StrV(<<4>>)}

FileContents ==
  {Absent, Garbage, JsonNull, JsonScalar}
    \cup {CounterObject(d, c) : d \in FileDates, c \in FileCounts}

\* usage-limit.js utcToday
utcToday == today

\* usage-limit.js loadCounters: readFileSync or JSON.parse throws (absent,
\* garbage), data.date throws on null (jsonnull), data.date is undefined
\* (scalar, object without date) or differs from today: a fresh counter.
loadCountersStale(f) ==
  IF f.kind = "object"
  THEN [date |-> utcToday, geminiCallsToday |-> f.count]
  ELSE [date |-> utcToday, geminiCallsToday |-> NumV(0)]

loadCounters(f) ==
  IF f.kind = "object" /\ f.date = utcToday
  THEN [date |-> f.date, geminiCallsToday |-> f.count]
  ELSE [date |-> utcToday, geminiCallsToday |-> NumV(0)]

\* usage-limit.js saveCounters: the whole object, stringified
saveCountersLost(counters) == Absent

saveCounters(counters) ==
  CounterObject(counters.date, Stringify(counters.geminiCallsToday))

\* usage-limit.js canSpendGemini(callsNeeded = 1, cap)
canSpendStrict(f, callsNeeded, cap) ==
  ToNumber(JSAdd(loadCounters(f).geminiCallsToday,
                 ToNumber(DefaultTo(callsNeeded, 1)))) < cap

canSpendLoose(f, callsNeeded, cap) ==
  JSLeq(loadCounters(f).geminiCallsToday, cap)

canSpendGemini(f, callsNeeded, cap) ==
  JSLeq(JSAdd(loadCounters(f).geminiCallsToday,
              ToNumber(DefaultTo(callsNeeded, 1))), cap)

\* usage-limit.js recordGeminiCalls(count = 1): the counters it saves
recordedCounters(f, count) ==
  [loadCounters(f) EXCEPT
     !.geminiCallsToday = JSAdd(@, ToNumber(DefaultTo(count, 1)))]

\* ... the file it leaves, and the value it returns
recordGeminiCallsFile(f, count) == saveCounters(recordedCounters(f, count))
recordGeminiCallsRet(f, count) == recordedCounters(f, count).geminiCallsToday

\* usage-limit.js geminiCallsToday
geminiCallsToday(f) == loadCounters(f).geminiCallsToday

\* usage-limit.js geminiCallsRemaining
geminiCallsRemaining(f, cap) ==
  JSMaxZeroDiff(cap, loadCounters(f).geminiCallsToday)

-----------------------------------------------------------------------------
(* SpecLimiter: the limiter's operations called in any order, any arguments *)

ArgValues == {Undef, NumV(1), NumV(2)}

NoCall ==
  [op |-> "none", n |-> Undef, cap |-> 0, pre |-> Absent, now |-> 0,
   retB |-> FALSE, retV |-> Undef]

\* the run of SpecAnalyst before it starts
\* pc, key (GOOGLE_AI_API_KEY is set), cap (ANALYST_CAP), n (capped.length),
\* i (the loop's article), counted, capReached, ok (response.ok) and briefs
\* (article.analystBrief of the articles done) are the program's; the rest is
\* history: warnings (cap-reached warnings logged), outcome (how the last
\* attempt ended), guard (canSpendGemini returned true and nothing was recorded
\* since), issued (requests sent), recorded (recordGeminiCalls calls), start and
\* startDay (file and day when the run started), atCall, callDay and
\* callRecorded (file, day and recorded when generateAnalystBrief was called),
\* dayAtRecord (day of its record), ticked (midnight passed during the run).
IdleRun ==
  [pc |-> "idle", key |-> FALSE, cap |-> 0, n |-> 0, i |-> 0,
   counted |-> FALSE, capReached |-> FALSE, ok |-> FALSE, briefs |-> <<>>,
   warnings |-> 0, outcome |-> "none",
   guard |-> FALSE, issued |-> 0, recorded |-> 0, callRecorded |-> 0,
   start |-> Absent, startDay |-> 0, atCall |-> Absent, callDay |-> 0,
   dayAtRecord |-> 0, ticked |-> FALSE]

\* the public pipeline of SpecPublic before it starts: pc, key
\* (CONFIG.googleAiApiKey is set), manual (manual.json's articles), rss
\* (allArticles as fetched), setting (sources.settings.maxArticlesInTicker, 0
\* when unset), combined (combinedArticles), final (finalArticles as merged),
\* processed (processedArticles), i (generateHTML's article) are the
\* program's; issued (requests sent), guard (canSpendGemini returned true and
\* nothing was recorded since: fetch-rss.js never calls it) and start (the
\* counter file when the run started) are history.
IdlePub ==
  [pc |-> "idle", key |-> FALSE, manual |-> <<>>, rss |-> <<>>, setting |-> 0,
   combined |-> <<>>, final |-> <<>>, processed |-> <<>>, i |-> 0,
   issued |-> 0, guard |-> FALSE, start |-> Absent]

\* The public run seen from its outbound requests, before main has started.
\* items (what each feed's document holds: the date of every item), manual
\* (the dates of the manual entries), key and hooks are the run's input; feed
\* is the promise of each fetchFeed call and its request; all, final and i
\* are main's allArticles, the list given to generateHTML and its loop index;
\* silent and timer describe the one request awaited outside the feed stage
\* (the endpoint never answers; an AbortSignal.timeout was passed).
IdleFeed ==
  [state |-> "idle", silent |-> FALSE, timer |-> FALSE, outcome |-> "none",
   articles |-> <<>>]

IdleNet ==
  [pc |-> "idle", key |-> FALSE, hooks |-> {}, items |-> <<>>, manual |-> <<>>,
   feed |-> <<>>, all |-> <<>>, final |-> <<>>, i |-> 0,
   silent |-> FALSE, timer |-> FALSE, exit |-> "none"]

\* No function applied: op names the function, arg its argument and out its
\* result once the function has been applied (done).
IdleFn == [op |-> "none", done |-> FALSE, arg |-> <<>>, out |-> <<>>]

\* the overlapping runs of SpecOverlap before they start: cap (ANALYST_CAP),
\* start (the counter file when the runs start) and, for each run, pc, n
\* (capped.length), i (the loop's article), counters (what loadCounters
\* returned to recordGeminiCalls), issued (requests sent) and recorded
\* (recordGeminiCalls calls that returned)
IdleOvl == [cap |-> 0, start |-> Absent, proc |-> <<>>]

InitLimiter ==
  /\ file \in FileContents
  /\ today \in Days
  /\ call = NoCall
  /\ net = IdleNet
  /\ fn = IdleFn
  /\ ovl = IdleOvl
  /\ run = IdleRun
  /\ pub = IdlePub

\* the model's bound on the counts a record may reach
WithinBounds(c) ==
  /\ c.t = "num" => c.v <= MaxCount
  /\ c.t = "str" => Len(c.s) <= MaxStrLen

\* canSpendGemini with a loadCounters that writes the fresh counter it makes
\* for a file that is missing, corrupt or dated another day
CanSpendCreates(callsNeeded, cap) ==
  /\ file' = IF file.kind = "object" /\ file.date = utcToday THEN file
             ELSE saveCounters(loadCounters(file))
  /\ call' = [op |-> "canSpend", n |-> callsNeeded, cap |-> cap, pre |-> file,
              now |-> today, retB |-> canSpendGemini(file, callsNeeded, cap),
              retV |-> Undef]
  /\ UNCHANGED <<today, run, pub, net, fn, ovl>>

CanSpend(callsNeeded, cap) ==
  /\ call' = [op |-> "canSpend", n |-> callsNeeded, cap |-> cap, pre |-> file,
              now |-> today, retB |-> canSpendGemini(file, callsNeeded, cap),
              retV |-> Undef]
  /\ UNCHANGED <<file, today, run, pub, net, fn, ovl>>

Record(count) ==
  /\ WithinBounds(recordGeminiCallsRet(file, count))
  /\ file' = recordGeminiCallsFile(file, count)
  /\ call' = [op |-> "record", n |-> count, cap |-> 0, pre |-> file,
              now |-> today, retB |-> FALSE,
              retV |-> recordGeminiCallsRet(file, count)]
  /\ UNCHANGED <<today, run, pub, net, fn, ovl>>

CallsToday ==
  /\ call' = [op |-> "callsToday", n |-> Undef, cap |-> 0, pre |-> file,
              now |-> today, retB |-> FALSE, retV |-> geminiCallsToday(file)]
  /\ UNCHANGED <<file, today, run, pub, net, fn, ovl>>

Remaining(cap) ==
  /\ call' = [op |-> "remaining", n |-> Undef, cap |-> cap, pre |-> file,
              now |-> today, retB |-> FALSE,
              retV |-> geminiCallsRemaining(file, cap)]
  /\ UNCHANGED <<file, today, run, pub, net, fn, ovl>>

\* midnight UTC passes
Tick ==
  /\ today < MaxDay
  /\ today' = today + 1
  /\ run' = IF run.pc = "idle" THEN run ELSE [run EXCEPT !.ticked = TRUE]
  /\ UNCHANGED <<file, call, pub, net, fn, ovl>>

NextLimiter ==
  \/ \E n \in ArgValues, cap \in Caps : CanSpend(n, cap)
  \/ \E k \in ArgValues : Record(k)
  \/ CallsToday
  \/ \E cap \in Caps : Remaining(cap)
  \/ Tick

SpecLimiter == InitLimiter /\ [][NextLimiter]_vars

-----------------------------------------------------------------------------
(* SpecAnalyst: one analyst-mode run, from step 6 of main to the delivery *)

InitAnalyst ==
  /\ file \in FileContents
  /\ today = 1      \* a file dated 0 is yesterday's
  /\ call = NoCall
  /\ net = IdleNet
  /\ fn = IdleFn
  /\ ovl = IdleOvl
  /\ pub = IdlePub
  /\ \E key \in BOOLEAN, cap \in Caps, n \in 1..MaxArticles :
       run = [IdleRun EXCEPT !.pc = "start", !.key = key, !.cap = cap, !.n = n,
                             !.i = 1, !.start = file, !.startDay = 1]

\* analyst-mode.js main, step 6 up to the loop: the key and the first cap check
Gate ==
  /\ run.pc = "start"
  /\ run' =
       IF ~run.key THEN [run EXCEPT !.pc = "deliver"]
       ELSE IF ~canSpendGemini(file, NumV(1), run.cap)
       THEN [run EXCEPT !.pc = "deliver", !.capReached = TRUE,
                        !.warnings = @ + 1]
       ELSE [run EXCEPT !.pc = "loop", !.guard = TRUE]
  /\ UNCHANGED <<file, today, call, pub, net, fn, ovl>>

\* generateAnalystBrief's catch block: whether it records
catchRecordsAlways(counted) == TRUE

catchRecords(counted) == ~counted

\* main's loop with the break left out: the warning is emitted and the loop
\* goes on to the next article
LoopStepNoBreak ==
  /\ run.pc = "loop"
  /\ run' =
       IF run.i > run.n THEN [run EXCEPT !.pc = "deliver"]
       ELSE IF ~canSpendGemini(file, NumV(1), run.cap)
       THEN [run EXCEPT !.capReached = TRUE, !.warnings = @ + 1,
                        !.briefs = Append(@, "null"), !.i = @ + 1]
       ELSE IF ~run.key
       THEN [run EXCEPT !.briefs = Append(@, "null"), !.i = @ + 1,
                        !.guard = TRUE, !.outcome = "nokey"]
       ELSE [run EXCEPT !.pc = "fetch", !.counted = FALSE, !.guard = TRUE,
                        !.issued = @ + 1, !.atCall = file, !.callDay = today,
                        !.callRecorded = run.recorded, !.outcome = "pending"]
  /\ UNCHANGED <<file, today, call, pub, net, fn, ovl>>

\* main's loop, one iteration up to the await: the cap is checked again, and
\* generateAnalystBrief runs up to its fetch (it returns null without a key)
LoopStep ==
  /\ run.pc = "loop"
  /\ run' =
       IF run.i > run.n THEN [run EXCEPT !.pc = "deliver"]
       ELSE IF ~canSpendGemini(file, NumV(1), run.cap)
       THEN [run EXCEPT !.pc = "deliver", !.capReached = TRUE,
                        !.warnings = @ + 1]
       ELSE IF ~run.key
       THEN [run EXCEPT !.briefs = Append(@, "null"), !.i = @ + 1,
                        !.guard = TRUE, !.outcome = "nokey"]
       ELSE [run EXCEPT !.pc = "fetch", !.counted = FALSE, !.guard = TRUE,
                        !.issued = @ + 1, !.atCall = file, !.callDay = today,
                        !.callRecorded = run.recorded, !.outcome = "pending"]
  /\ UNCHANGED <<file, today, call, pub, net, fn, ovl>>

\* fetch rejects (transport error, the 20 s timeout): the catch block
FetchThrows ==
  /\ run.pc = "fetch"
  /\ file' = IF catchRecords(run.counted)
             THEN recordGeminiCallsFile(file, NumV(1)) ELSE file
  /\ run' = [run EXCEPT !.pc = "loop", !.briefs = Append(@, "null"),
                        !.i = @ + 1, !.outcome = "throw", !.guard = FALSE,
                        !.recorded = IF catchRecords(run.counted) THEN @ + 1 ELSE @,
                        !.dayAtRecord = today]
  /\ UNCHANGED <<today, call, pub, net, fn, ovl>>

\* fetch resolves with a response: recorded, counted, then the body is awaited
FetchResolves(ok) ==
  /\ run.pc = "fetch"
  /\ file' = recordGeminiCallsFile(file, NumV(1))
  /\ run' = [run EXCEPT !.pc = "body", !.counted = TRUE, !.ok = ok,
                        !.guard = FALSE, !.recorded = @ + 1,
                        !.dayAtRecord = today]
  /\ UNCHANGED <<today, call, pub, net, fn, ovl>>

BodyOutcomes(ok) ==
  IF ok THEN {"text", "notext", "parsefail"} ELSE {"non2xx"}

\* the body settles: response.text() of a non-2xx (read errors ignored), or
\* response.json() and extractGeminiText; a json() that throws goes to the catch
BodySettles(outcome) ==
  /\ run.pc = "body"
  /\ outcome \in BodyOutcomes(run.ok)
  /\ file' = IF outcome = "parsefail" /\ catchRecords(run.counted)
             THEN recordGeminiCallsFile(file, NumV(1)) ELSE file
  /\ run' = [run EXCEPT !.pc = "loop", !.i = @ + 1, !.outcome = outcome,
                        !.briefs = Append(@, IF outcome = "text" THEN "text"
                                                                 ELSE "null"),
                        !.recorded = IF outcome = "parsefail"
                                        /\ catchRecords(run.counted)
                                     THEN @ + 1 ELSE @]
  /\ UNCHANGED <<today, call, pub, net, fn, ovl>>

\* main, steps 7 and 8: the digest is posted (or not), the run ends
Deliver ==
  /\ run.pc = "deliver"
  /\ run' = [run EXCEPT !.pc = "done"]
  /\ UNCHANGED <<file, today, call, pub, net, fn, ovl>>

NextAnalyst ==
  \/ Gate
  \/ LoopStep
  \/ FetchThrows
  \/ \E ok \in BOOLEAN : FetchResolves(ok)
  \/ \E o \in {"text", "notext", "parsefail", "non2xx"} : BodySettles(o)
  \/ Deliver
  \/ Tick

SpecAnalyst == InitAnalyst /\ [][NextAnalyst]_vars

-----------------------------------------------------------------------------
(* SpecPublic: one run of the public pipeline, from the fetched feeds and the *)
(* manual entries to the written output.  The dates of manual entries are     *)
(* taken to parse.                                                            *)

MaxTotal == 3               \* manual entries plus fetched RSS articles
DefaultMaxArticles == 36    \* sources.settings?.maxArticlesInTicker || 36

Urls == {"u1", "u2"}
PubDates == {1, 2}          \* publishedAt instants, later is larger

\* an entry of manual.json: priority and takeaway are "" when not given
ManualEntries ==
  [url : Urls, priority : {"high", ""}, takeaway : {"", "preset"}]

\* an article normalizeArticle made of a feed item: takeaway null, no priority
RssArticles ==
  [src : {"rss"}, url : Urls, publishedAt : PubDates, takeaway : {"null"},
   priority : {""}]

SeqsUpTo(S, n) == UNION {[1..k -> S] : k \in 0..n}

\* main: formattedManualArticles (article.takeaway || null,
\* article.priority || 'normal')
formatManual(a) ==
  [src |-> "manual", url |-> a.url, publishedAt |-> 0,
   takeaway |-> IF a.takeaway = "" THEN "null" ELSE a.takeaway,
   priority |-> IF a.priority = "" THEN "normal" ELSE a.priority]

formattedManualArticles(manual) ==
  [k \in 1..Len(manual) |-> formatManual(manual[k])]

\* allArticles.sort((a, b) => new Date(b.publishedAt) - new Date(a.publishedAt)):
\* a stable sort, newest first
RECURSIVE InsertNewestFirst(_, _)
InsertNewestFirst(sorted, a) ==
  IF sorted = <<>> THEN <<a>>
  ELSE IF Head(sorted).publishedAt >= a.publishedAt
       THEN <<Head(sorted)>> \o InsertNewestFirst(Tail(sorted), a)
       ELSE <<a>> \o sorted

RECURSIVE SortNewestFirst(_)
SortNewestFirst(s) ==
  IF s = <<>> THEN <<>>
  ELSE InsertNewestFirst(SortNewestFirst(SubSeq(s, 1, Len(s) - 1)), s[Len(s)])

\* main: the dedupe loop over the sorted articles, first URL wins
RECURSIVE DedupeFrom(_, _)
DedupeFrom(s, seenUrls) ==
  IF s = <<>> THEN <<>>
  ELSE IF Head(s).url \in seenUrls
       THEN DedupeFrom(Tail(s), seenUrls)
       ELSE <<Head(s)>> \o DedupeFrom(Tail(s), seenUrls \cup {Head(s).url})

dedupedUnsorted(rss) == DedupeFrom(rss, {})

deduped(rss) == DedupeFrom(SortNewestFirst(rss), {})

seenUrls(rss) == {rss[k].url : k \in 1..Len(rss)}

\* main: combinedArticles
combinedNormalFirst(manual, rss) ==
  LET fm == formattedManualArticles(manual)
      IsHigh(a) == a.priority = "high"
      IsKeptNormal(a) == a.priority # "high" /\ a.url \notin seenUrls(rss)
  IN  SelectSeq(fm, IsKeptNormal) \o SelectSeq(fm, IsHigh) \o deduped(rss)

combinedArticles(manual, rss) ==
  LET fm == formattedManualArticles(manual)
      IsHigh(a) == a.priority = "high"
      IsKeptNormal(a) == a.priority # "high" /\ a.url \notin seenUrls(rss)
  IN  SelectSeq(fm, IsHigh) \o deduped(rss) \o SelectSeq(fm, IsKeptNormal)

\* main: maxArticles and finalArticles = combinedArticles.slice(0, maxArticles)
maxArticles(setting) == IF setting = 0 THEN DefaultMaxArticles ELSE setting

\* combinedArticles.slice(-maxArticles): what is kept is the tail
finalArticlesFromTail(combined, setting) ==
  SubSeq(combined,
         IF Len(combined) < maxArticles(setting)
         THEN 1 ELSE Len(combined) - maxArticles(setting) + 1,
         Len(combined))

finalArticles(combined, setting) ==
  SubSeq(combined, 1, IF Len(combined) < maxArticles(setting)
                      THEN Len(combined) ELSE maxArticles(setting))

InitPublic ==
  /\ file = CounterObject(1, NumV(1))
  /\ today = 1
  /\ call = NoCall
  /\ net = IdleNet
  /\ fn = IdleFn
  /\ ovl = IdleOvl
  /\ run = IdleRun
  /\ \E key \in BOOLEAN, setting \in {0, 2},
        manual \in SeqsUpTo(ManualEntries, MaxTotal),
        rss \in SeqsUpTo(RssArticles, MaxTotal) :
       /\ Len(manual) + Len(rss) <= MaxTotal
       /\ pub = [IdlePub EXCEPT !.pc = "start", !.key = key, !.manual = manual,
                                !.rss = rss, !.setting = setting,
                                !.start = file]

\* main from the fetched feeds to generateHTML: format, partition, sort,
\* dedupe, combine, limit; an empty result ends the run
Merge ==
  /\ pub.pc = "start"
  /\ LET combined == combinedArticles(pub.manual, pub.rss)
         final == finalArticles(combined, pub.setting)
     IN  pub' = [pub EXCEPT !.combined = combined, !.final = final,
                            !.pc = IF final = <<>> THEN "done" ELSE "html",
                            !.i = 1]
  /\ UNCHANGED <<file, today, call, run, net, fn, ovl>>

\* generateTakeaway's result put on the article: article.takeaway = takeaway
WithTakeaway(article, takeaway) == [article EXCEPT !.takeaway = takeaway]

\* generateHTML's loop with the await left out: the request is sent and the
\* loop goes on to the next article
TakeawayStepNoAwait ==
  /\ pub.pc = "html"
  /\ pub' =
       IF pub.i > Len(pub.final) THEN [pub EXCEPT !.pc = "write"]
       ELSE IF ~pub.key
       THEN [pub EXCEPT !.processed =
                           Append(@, WithTakeaway(pub.final[pub.i], "fallback")),
                        !.i = @ + 1]
       ELSE [pub EXCEPT !.issued = @ + 1, !.i = @ + 1]
  /\ UNCHANGED <<file, today, call, run, net, fn, ovl>>

\* generateHTML's loop, one iteration up to the await: without a key
\* generateTakeaway returns the fallback, with one it sends the request
TakeawayStep ==
  /\ pub.pc = "html"
  /\ pub' =
       IF pub.i > Len(pub.final) THEN [pub EXCEPT !.pc = "write"]
       ELSE IF ~pub.key
       THEN [pub EXCEPT !.processed =
                           Append(@, WithTakeaway(pub.final[pub.i], "fallback")),
                        !.i = @ + 1]
       ELSE [pub EXCEPT !.pc = "fetch", !.issued = @ + 1]
  /\ UNCHANGED <<file, today, call, run, net, fn, ovl>>

\* what generateTakeaway returns for each way the request ends: the trimmed
\* text, which is empty for a text of white space, or the fallback when the
\* response has no text, its body does not parse, or fetch throws
TakeawayOutcomes == {"text", "blank", "notext", "parsefail", "throw"}

takeawayOf(outcome) ==
  CASE outcome = "text" -> "ai"
    [] outcome = "blank" -> ""
    [] OTHER -> "fallback"

TakeawaySettles(outcome) ==
  /\ pub.pc = "fetch"
  /\ pub' = [pub EXCEPT !.pc = "html", !.i = @ + 1,
                        !.processed =
                           Append(@, WithTakeaway(pub.final[pub.i],
                                                  takeawayOf(outcome)))]
  /\ UNCHANGED <<file, today, call, run, net, fn, ovl>>

\* main: writeOutput and the webhook notifications
WriteOutput ==
  /\ pub.pc = "write"
  /\ pub' = [pub EXCEPT !.pc = "done"]
  /\ UNCHANGED <<file, today, call, run, net, fn, ovl>>

NextPublic ==
  \/ Merge
  \/ TakeawayStep
  \/ \E o \in TakeawayOutcomes : TakeawaySettles(o)
  \/ WriteOutput

SpecPublic == InitPublic /\ [][NextPublic]_vars

-----------------------------------------------------------------------------
(* SpecLoops: the two loops that send summarization requests, each in a    *)
(* process of its own: generateHTML's loop of a public run over articles    *)
(* fetched from the feeds, or the loop of an analyst-mode run.              *)

InitLoops ==
  \/ InitAnalyst
  \/ /\ file = CounterObject(1, NumV(1))
     /\ today = 1
     /\ call = NoCall
     /\ net = IdleNet
     /\ fn = IdleFn
     /\ ovl = IdleOvl
     /\ run = IdleRun
     /\ \E key \in BOOLEAN, setting \in {0, 2},
           rss \in SeqsUpTo(RssArticles, MaxTotal) :
          pub = [IdlePub EXCEPT !.pc = "start", !.key = key, !.rss = rss,
                                !.setting = setting, !.start = file]

NextLoops == NextPublic \/ NextAnalyst

SpecLoops == InitLoops /\ [][NextLoops]_vars

\* the other variables while one function is applied
NoProcess ==
  /\ ovl = IdleOvl
  /\ file = Absent
  /\ today = 0
  /\ call = NoCall
  /\ run = IdleRun
  /\ pub = IdlePub
  /\ net = IdleNet

-----------------------------------------------------------------------------
(* Text: a JavaScript string is the sequence of its characters *)

\* a property that is absent (undefined); like '' it is falsy
Missing == <<"undefined">>

\* v || ''
orEmpty(v) == IF v = Missing THEN <<>> ELSE v

UpperCase ==
  <<"A", "B", "C", "D", "E", "F", "G", "H", "I", "J", "K", "L", "M", "N", "O", "P", "Q", "R", "S", "T", "U", "V", "W", "X", "Y", "Z">>
LowerCase ==
  <<"a", "b", "c", "d", "e", "f", "g", "h", "i", "j", "k", "l", "m", "n", "o", "p", "q", "r", "s", "t", "u", "v", "w", "x", "y", "z">>

IsUpper(c) == \E i \in 1..Len(UpperCase) : UpperCase[i] = c
IsLower(c) == \E i \in 1..Len(LowerCase) : LowerCase[i] = c

\* String.prototype.toLowerCase
toLowerCase(text) ==
  [k \in 1..Len(text) |->
     IF IsUpper(text[k])
     THEN LowerCase[CHOOSE i \in 1..Len(UpperCase) : UpperCase[i] = text[k]]
     ELSE text[k]]

\* String.prototype.includes
includes(text, part) ==
  \E i \in 1..(Len(text) - Len(part) + 1) :
    \A j \in 1..Len(part) : text[i + j - 1] = part[j]

\* words.join(' ')
RECURSIVE Join(_)
Join(words) ==
  IF words = <<>> THEN <<>>
  ELSE IF Len(words) = 1 THEN words[1]
  ELSE words[1] \o <<" ">> \o Join(Tail(words))

-----------------------------------------------------------------------------
(* SpecFallback: createFallbackTakeaway applied to one article *)

MaxPhrases == 2   \* phrases of a headline built from RulePhrases

\* the rules in another order: regulatory before safety
createFallbackRegulatoryFirst(article) ==
  LET text == toLowerCase(article.headline \o <<" ">> \o orEmpty(article.blurb))
      category == article.category
  IN
  IF \/ category = "regulatory"
     \/ includes(text, <<"f", "a", "a">>)
     \/ includes(text, <<"e", "a", "s", "a">>)
     \/ includes(text, <<"r", "e", "g", "u", "l", "a", "t", "i", "o", "n">>)
  THEN "Regulatory changes may affect industry operations."
  ELSE IF \/ category = "safety"
          \/ includes(text, <<"s", "a", "f", "e", "t", "y">>)
          \/ includes(text, <<"c", "r", "a", "s", "h">>)
          \/ includes(text, <<"i", "n", "c", "i", "d", "e", "n", "t">>)
  THEN "Safety implications warrant industry attention."
  ELSE IF \/ category = "evtol"
          \/ includes(text, <<"e", "v", "t", "o", "l">>)
          \/ includes(text, <<"a", "i", "r", " ", "t", "a", "x", "i">>)
          \/ includes(text, <<"u", "r", "b", "a", "n", " ", "a", "i", "r">>)
  THEN "Urban air mobility advances toward commercial reality."
  ELSE IF \/ category = "drones"
          \/ includes(text, <<"d", "r", "o", "n", "e">>)
          \/ includes(text, <<"u", "a", "s">>)
          \/ includes(text, <<"u", "n", "m", "a", "n", "n", "e", "d">>)
  THEN "Drone technology continues to reshape aviation operations."
  ELSE IF \/ category = "electric"
          \/ includes(text, <<"e", "l", "e", "c", "t", "r", "i", "c">>)
          \/ includes(text, <<"h", "y", "b", "r", "i", "d">>)
          \/ includes(text, <<"s", "u", "s", "t", "a", "i", "n", "a", "b", "l", "e">>)
  THEN "Sustainable aviation technology gains momentum."
  ELSE IF \/ includes(text, <<"b", "o", "e", "i", "n", "g">>)
  THEN "Boeing developments impact global aviation supply chain."
  ELSE IF \/ includes(text, <<"a", "i", "r", "b", "u", "s">>)
  THEN "Airbus activity reflects European aerospace trends."
  ELSE IF \/ category = "aerospace"
          \/ includes(text, <<"n", "a", "s", "a">>)
          \/ includes(text, <<"s", "p", "a", "c", "e">>)
  THEN "Aerospace developments expand industry horizons."
  ELSE IF \/ category = "military"
  THEN "Military aviation advances influence broader industry."
  ELSE IF \/ category = "commercial"
          \/ includes(text, <<"a", "i", "r", "l", "i", "n", "e">>)
          \/ includes(text, <<"a", "i", "r", "p", "o", "r", "t">>)
  THEN "Commercial aviation dynamics shape travel industry."
  ELSE IF \/ category = "business-aviation"
  THEN "Business aviation sector shows evolving market trends."
  ELSE "Industry developments to monitor closely."

\* createFallbackTakeaway: the rules in the order of the code
createFallbackTakeaway(article) ==
  LET text == toLowerCase(article.headline \o <<" ">> \o orEmpty(article.blurb))
      category == article.category
  IN
  IF \/ category = "safety"
     \/ includes(text, <<"s", "a", "f", "e", "t", "y">>)
     \/ includes(text, <<"c", "r", "a", "s", "h">>)
     \/ includes(text, <<"i", "n", "c", "i", "d", "e", "n", "t">>)
  THEN "Safety implications warrant industry attention."
  ELSE IF \/ category = "regulatory"
          \/ includes(text, <<"f", "a", "a">>)
          \/ includes(text, <<"e", "a", "s", "a">>)
          \/ includes(text, <<"r", "e", "g", "u", "l", "a", "t", "i", "o", "n">>)
  THEN "Regulatory changes may affect industry operations."
  ELSE IF \/ category = "evtol"
          \/ includes(text, <<"e", "v", "t", "o", "l">>)
          \/ includes(text, <<"a", "i", "r", " ", "t", "a", "x", "i">>)
          \/ includes(text, <<"u", "r", "b", "a", "n", " ", "a", "i", "r">>)
  THEN "Urban air mobility advances toward commercial reality."
  ELSE IF \/ category = "drones"
          \/ includes(text, <<"d", "r", "o", "n", "e">>)
          \/ includes(text, <<"u", "a", "s">>)
          \/ includes(text, <<"u", "n", "m", "a", "n", "n", "e", "d">>)
  THEN "Drone technology continues to reshape aviation operations."
  ELSE IF \/ category = "electric"
          \/ includes(text, <<"e", "l", "e", "c", "t", "r", "i", "c">>)
          \/ includes(text, <<"h", "y", "b", "r", "i", "d">>)
          \/ includes(text, <<"s", "u", "s", "t", "a", "i", "n", "a", "b", "l", "e">>)
  THEN "Sustainable aviation technology gains momentum."
  ELSE IF \/ includes(text, <<"b", "o", "e", "i", "n", "g">>)
  THEN "Boeing developments impact global aviation supply chain."
  ELSE IF \/ includes(text, <<"a", "i", "r", "b", "u", "s">>)
  THEN "Airbus activity reflects European aerospace trends."
  ELSE IF \/ category = "aerospace"
          \/ includes(text, <<"n", "a", "s", "a">>)
          \/ includes(text, <<"s", "p", "a", "c", "e">>)
  THEN "Aerospace developments expand industry horizons."
  ELSE IF \/ category = "military"
  THEN "Military aviation advances influence broader industry."
  ELSE IF \/ category = "commercial"
          \/ includes(text, <<"a", "i", "r", "l", "i", "n", "e">>)
          \/ includes(text, <<"a", "i", "r", "p", "o", "r", "t">>)
  THEN "Commercial aviation dynamics shape travel industry."
  ELSE IF \/ category = "business-aviation"
  THEN "Business aviation sector shows evolving market trends."
  ELSE "Industry developments to monitor closely."

\* every keyword of the rules, and words that hold none, hold one in capitals
\* or hold one inside another word
Phrases ==
  {<<"a", "i", "r", " ", "t", "a", "x", "i">>,
   <<"a", "i", "r", "b", "u", "s">>,
   <<"a", "i", "r", "l", "i", "n", "e">>,
   <<"a", "i", "r", "p", "o", "r", "t">>,
   <<"b", "o", "e", "i", "n", "g">>,
   <<"c", "r", "a", "s", "h">>,
   <<"d", "r", "o", "n", "e">>,
   <<"e", "a", "s", "a">>,
   <<"e", "l", "e", "c", "t", "r", "i", "c">>,
   <<"e", "v", "t", "o", "l">>,
   <<"f", "a", "a">>,
   <<"h", "y", "b", "r", "i", "d">>,
   <<"i", "n", "c", "i", "d", "e", "n", "t">>,
   <<"n", "a", "s", "a">>,
   <<"r", "e", "g", "u", "l", "a", "t", "i", "o", "n">>,
   <<"s", "a", "f", "e", "t", "y">>,
   <<"s", "p", "a", "c", "e">>,
   <<"s", "u", "s", "t", "a", "i", "n", "a", "b", "l", "e">>,
   <<"u", "a", "s">>,
   <<"u", "n", "m", "a", "n", "n", "e", "d">>,
   <<"u", "r", "b", "a", "n", " ", "a", "i", "r">>,
   <<"j", "e", "t">>,
   <<"B", "o", "e", "i", "n", "g">>,
   <<"F", "A", "A">>,
   <<"q", "u", "a", "s", "i">>,
   <<"U", "A", "S">>}

RulePhrases ==
  {<<"c", "r", "a", "s", "h">>,
   <<"f", "a", "a">>,
   <<"a", "i", "r", " ", "t", "a", "x", "i">>,
   <<"d", "r", "o", "n", "e">>,
   <<"h", "y", "b", "r", "i", "d">>,
   <<"b", "o", "e", "i", "n", "g">>,
   <<"a", "i", "r", "b", "u", "s">>,
   <<"s", "p", "a", "c", "e">>,
   <<"a", "i", "r", "p", "o", "r", "t">>,
   <<"j", "e", "t">>,
   <<"A", "i", "r", "l", "i", "n", "e">>}

FallbackCategories ==
  {"safety", "regulatory", "evtol", "drones", "electric", "aerospace",
   "military", "commercial", "business-aviation", "industry"}

Headlines ==
  Phrases \cup {Join(ws) : ws \in SeqsUpTo(RulePhrases, MaxPhrases)}

InitFallback ==
  /\ NoProcess
  /\ \E category \in FallbackCategories, headline \in Headlines,
        blurb \in {Missing, <<"e", "a", "s", "a">>} :
       fn = [op |-> "fallback", done |-> FALSE,
             arg |-> [headline |-> headline, blurb |-> blurb,
                      category |-> category],
             out |-> <<>>]

Fallback ==
  /\ fn.op = "fallback" /\ ~fn.done
  /\ fn' = [fn EXCEPT !.done = TRUE, !.out = createFallbackTakeaway(fn.arg)]
  /\ UNCHANGED <<file, today, call, run, pub, net, ovl>>

NextFallback == Fallback

SpecFallback == InitFallback /\ [][NextFallback]_vars

-----------------------------------------------------------------------------
(* SpecTakeaway: generateTakeaway applied to one article and one response *)

\* the characters \s of a regular expression matches and trim() removes; the
\* non-breaking space is written "nbsp"
WhiteSpace == {" ", "\n", "\t", "nbsp"}

\* String.prototype.trim
RECURSIVE trimStart(_)
trimStart(text) ==
  IF text # <<>> /\ Head(text) \in WhiteSpace THEN trimStart(Tail(text)) ELSE text

RECURSIVE trimEnd(_)
trimEnd(text) ==
  IF text # <<>> /\ text[Len(text)] \in WhiteSpace
  THEN trimEnd(SubSeq(text, 1, Len(text) - 1)) ELSE text

trim(text) == trimEnd(trimStart(text))

\* a value that is truthy and no string (a number, an object)
NotAString == <<"object">>

\* What the request of generateTakeaway ends with: fetch throws; the body is
\* no JSON (response.json() rejects); or the body is JSON, with the status
\* and with what data.candidates?.[0]?.content?.parts?.[0]?.text holds
\* (Missing when the chain ends in undefined).
ResponseTexts ==
  {Missing, <<>>, NotAString, <<" ">>, <<"\n", " ">>, <<"J", "e", "t", "s", ".">>, <<" ", "J", "e", "t", "s", ".", "\n">>}

Responses ==
  {[kind |-> "throws", ok |-> FALSE, text |-> Missing],
   [kind |-> "badjson", ok |-> TRUE, text |-> Missing],
   [kind |-> "badjson", ok |-> FALSE, text |-> Missing]}
  \cup [kind : {"json"}, ok : BOOLEAN, text : ResponseTexts]

\* what generateTakeaway's promise settles with: a fallback sentence or the
\* text of the response
Resolved(fallback, sentence, text) ==
  [state |-> "resolved", fallback |-> fallback, sentence |-> sentence,
   text |-> text]

generateTakeaway(article, key, response) ==
  LET fallback == Resolved(TRUE, createFallbackTakeaway(article), <<>>)
  IN  IF ~key THEN fallback                          \* no credential
      ELSE IF response.kind = "throws" THEN fallback  \* catch
      ELSE IF response.kind = "badjson" THEN fallback \* catch
      ELSE IF response.text # Missing /\ response.text # <<>>
           THEN IF response.text = NotAString
                THEN fallback                         \* .trim is no function: catch
                ELSE Resolved(FALSE, "", trim(response.text))
           ELSE fallback

InitTakeaway ==
  /\ NoProcess
  /\ \E category \in FallbackCategories, headline \in Phrases,
        key \in BOOLEAN, response \in Responses :
       fn = [op |-> "takeaway", done |-> FALSE,
             arg |-> [article |-> [headline |-> headline, blurb |-> Missing,
                                   category |-> category],
                      key |-> key, response |-> response],
             out |-> <<>>]

GenerateTakeaway ==
  /\ fn.op = "takeaway" /\ ~fn.done
  /\ fn' = [fn EXCEPT !.done = TRUE,
                      !.out = generateTakeaway(fn.arg.article, fn.arg.key,
                                               fn.arg.response)]
  /\ UNCHANGED <<file, today, call, run, pub, net, ovl>>

NextTakeaway == GenerateTakeaway

SpecTakeaway == InitTakeaway /\ [][NextTakeaway]_vars

-----------------------------------------------------------------------------
(* The text functions of the normalizer.  A character of the Basic Latin   *)
(* block is itself; the other characters the code names are written by the *)
(* name of their entity ("mdash", "nbsp", ...), and "other" is a character  *)
(* that is no white space, letter, digit or markup.                        *)

Digits == <<"0", "1", "2", "3", "4", "5", "6", "7", "8", "9">>
HexLetters == <<"a", "b", "c", "d", "e", "f">>
HexCapitals == <<"A", "B", "C", "D", "E", "F">>

DigitChars == {Digits[i] : i \in 1..10}
HexDigitChars ==
  DigitChars \cup {HexLetters[i] : i \in 1..6} \cup {HexCapitals[i] : i \in 1..6}
Letters ==
  {UpperCase[i] : i \in 1..Len(UpperCase)}
    \cup {LowerCase[i] : i \in 1..Len(LowerCase)}

HexDigitValue(c) ==
  IF c \in DigitChars THEN (CHOOSE i \in 1..10 : Digits[i] = c) - 1
  ELSE (CHOOSE i \in 1..6 : HexLetters[i] = c \/ HexCapitals[i] = c) + 9

\* the number a run of digits denotes in the given base
RECURSIVE NumberOf(_, _)
NumberOf(digits, base) ==
  IF digits = <<>> THEN 0
  ELSE NumberOf(SubSeq(digits, 1, Len(digits) - 1), base) * base
         + HexDigitValue(digits[Len(digits)])

\* String.fromCharCode: the character of a code unit
fromCharCode(code) ==
  LET unit == code % 65536
  IN  CASE unit = 32 -> " "
        [] unit = 38 -> "&"
        [] unit = 39 -> "'"
        [] unit = 45 -> "-"
        [] unit = 59 -> ";"
        [] unit = 60 -> "<"
        [] unit = 62 -> ">"
        [] unit = 65 -> "A"
        [] unit = 97 -> "a"
        [] unit = 124 -> "|"
        [] unit = 160 -> "nbsp"
        [] unit = 8211 -> "ndash"
        [] unit = 8212 -> "mdash"
        [] OTHER -> "other"

\* the length of the longest prefix of text made of the given characters
RECURSIVE RunLength(_, _)
RunLength(text, chars) ==
  IF text # <<>> /\ Head(text) \in chars
  THEN 1 + RunLength(Tail(text), chars) ELSE 0

StartsWith(text, part) ==
  Len(part) <= Len(text) /\ SubSeq(text, 1, Len(part)) = part

DropFirst(text, n) == SubSeq(text, n + 1, Len(text))

\* the first position of text that holds one of the given characters, 0 when
\* there is none
IndexOf(text, chars) ==
  LET at == {k \in 1..Len(text) : text[k] \in chars}
  IN  IF at = {} THEN 0 ELSE CHOOSE k \in at : \A j \in at : k <= j

\* text.replace(/<[^>]*>/g, ''): every "<" up to the next ">" is removed; a
\* "<" that no ">" follows stays, and so does all that follows it
RECURSIVE stripTags(_)
stripTags(text) ==
  LET open == IndexOf(text, {"<"})
      inside == DropFirst(text, open)
      close == IndexOf(inside, {">"})
  IN  IF open = 0 \/ close = 0 THEN text
      ELSE SubSeq(text, 1, open - 1) \o stripTags(DropFirst(inside, close))

\* text.replace(/&#(\d+);/g, (match, dec) => String.fromCharCode(dec)) for
\* prefix "&#" and decimal digits, and
\* text.replace(/&#x([0-9a-fA-F]+);/g, ... parseInt(hex, 16)) for "&#x"
RECURSIVE decodeNumbered(_, _, _, _)
decodeNumbered(text, prefix, digits, base) ==
  LET amp == IndexOf(text, {"&"})
      before == SubSeq(text, 1, amp - 1)
      from == DropFirst(text, amp - 1)
      rest == DropFirst(from, Len(prefix))
      n == RunLength(rest, digits)
  IN  IF amp = 0 THEN text
      ELSE IF /\ StartsWith(from, prefix)
              /\ n >= 1
              /\ Len(rest) > n
              /\ rest[n + 1] = ";"
      THEN before \o <<fromCharCode(NumberOf(SubSeq(rest, 1, n), base))>>
             \o decodeNumbered(DropFirst(rest, n + 1), prefix, digits, base)
      ELSE before \o <<"&">>
             \o decodeNumbered(Tail(from), prefix, digits, base)

\* text.replace(/entity/g, char) for an entity written out
RECURSIVE replaceAll(_, _, _)
replaceAll(text, entity, char) ==
  LET first == IndexOf(text, {Head(entity)})
      before == SubSeq(text, 1, first - 1)
      from == DropFirst(text, first - 1)
  IN  IF first = 0 THEN text
      ELSE IF StartsWith(from, entity)
      THEN before \o char \o replaceAll(DropFirst(from, Len(entity)), entity, char)
      ELSE before \o <<Head(from)>> \o replaceAll(Tail(from), entity, char)

\* the named entities in the order decodeHtmlEntities replaces them
NamedEntities ==
  <<[entity |-> <<"&", "a", "m", "p", ";">>, char |-> <<"&">>],
    [entity |-> <<"&", "l", "t", ";">>, char |-> <<"<">>],
    [entity |-> <<"&", "g", "t", ";">>, char |-> <<">">>],
    [entity |-> <<"&", "q", "u", "o", "t", ";">>, char |-> <<"\"">>],
    [entity |-> <<"&", "a", "p", "o", "s", ";">>, char |-> <<"'">>],
    [entity |-> <<"&", "#", "3", "9", ";">>, char |-> <<"'">>],
    [entity |-> <<"&", "n", "b", "s", "p", ";">>, char |-> <<" ">>],
    [entity |-> <<"&", "m", "d", "a", "s", "h", ";">>, char |-> <<"mdash">>],
    [entity |-> <<"&", "n", "d", "a", "s", "h", ";">>, char |-> <<"ndash">>],
    [entity |-> <<"&", "h", "e", "l", "l", "i", "p", ";">>, char |-> <<".", ".", ".">>],
    [entity |-> <<"&", "l", "s", "q", "u", "o", ";">>, char |-> <<"lsquo">>],
    [entity |-> <<"&", "r", "s", "q", "u", "o", ";">>, char |-> <<"rsquo">>],
    [entity |-> <<"&", "l", "d", "q", "u", "o", ";">>, char |-> <<"ldquo">>],
    [entity |-> <<"&", "r", "d", "q", "u", "o", ";">>, char |-> <<"rdquo">>]>>
RECURSIVE replaceNamed(_, _)
replaceNamed(text, k) ==
  IF k > Len(NamedEntities) THEN text
  ELSE replaceNamed(replaceAll(text, NamedEntities[k].entity,
                               NamedEntities[k].char), k + 1)

\* decodeHtmlEntities
decodeHtmlEntities(text) ==
  IF text = <<>> THEN <<>>
  ELSE replaceNamed(
         decodeNumbered(decodeNumbered(text, <<"&", "#">>, DigitChars, 10),
                        <<"&", "#", "x">>, HexDigitChars, 16),
         1)

\* text.replace(/\s+/g, ' ')
RECURSIVE collapseWhiteSpace(_)
collapseWhiteSpace(text) ==
  LET first == IndexOf(text, WhiteSpace)
      from == DropFirst(text, first - 1)
  IN  IF first = 0 THEN text
      ELSE SubSeq(text, 1, first - 1) \o <<" ">>
             \o collapseWhiteSpace(DropFirst(from, RunLength(from, WhiteSpace)))

\* the source suffix, /\s+[dashes or |]\s+[A-Z][A-Za-z\s]{2,20}$/ with the
\* hyphen, the en dash and the em dash as dashes, matches text from position i on
SuffixMatchesAt(text, i) ==
  LET n1 == RunLength(DropFirst(text, i - 1), WhiteSpace)
      dash == i + n1
      n2 == RunLength(DropFirst(text, dash), WhiteSpace)
      cap == dash + n2 + 1
      name == DropFirst(text, cap)
  IN  /\ n1 >= 1
      /\ dash <= Len(text) /\ text[dash] \in {"-", "ndash", "mdash", "|"}
      /\ n2 >= 1
      /\ cap <= Len(text) /\ IsUpper(text[cap])
      /\ Len(name) >= 2 /\ Len(name) <= 20
      /\ RunLength(name, Letters \cup WhiteSpace) = Len(name)

\* text.replace of the source suffix by '': the leftmost match is removed
stripSourceSuffix(text) ==
  IF \E i \in 1..Len(text) : SuffixMatchesAt(text, i)
  THEN LET first == CHOOSE i \in 1..Len(text) :
                      /\ SuffixMatchesAt(text, i)
                      /\ \A j \in 1..(i - 1) : ~SuffixMatchesAt(text, j)
       IN  SubSeq(text, 1, first - 1)
  ELSE text

-----------------------------------------------------------------------------
(* SpecNetwork: the outbound requests of one public run: the feeds fetched *)
(* concurrently, the takeaway requests one after another, the webhooks     *)

MaxItems == 2    \* items of all feed documents together

\* the date of a feed item or manual entry: an instant (1, which is not the
\* instant of a run), none of the aliased fields present, or a value Date
\* cannot parse
MissingDate == 0 - 1
InvalidDate == 0 - 2
ItemDates == {1, MissingDate, InvalidDate}

\* the enabled feeds of sources.json, in order
Feeds == {1, 2}

\* Date.prototype.toISOString: a RangeError for an invalid date
toISOString(d) ==
  IF d = InvalidDate THEN [threw |-> TRUE, v |-> 0] ELSE [threw |-> FALSE, v |-> d]

\* normalizeArticle: pubDate = item.pubDate || item.published || item.updated
\* || item['dc:date'] || new Date().toISOString()
pubDate(date, now) == IF date = MissingDate THEN now ELSE date

\* normalizeArticle: publishedAt: new Date(pubDate).toISOString()
itemPublishedAt(date, now) == toISOString(pubDate(date, now))

\* main: publishedAt: article.date ? new Date(article.date).toISOString()
\*                                 : new Date().toISOString()
manualPublishedAt(date, now) ==
  IF date # MissingDate THEN toISOString(date) ELSE toISOString(now)

\* items.map(item => normalizeArticle(item, feed)): the articles, or a throw
\* when normalizeArticle throws for an item
normalizeItems(f, items, now) ==
  [threw |-> \E k \in 1..Len(items) : itemPublishedAt(items[k], now).threw,
   articles |-> [k \in 1..Len(items) |->
                   [feed |-> f, k |-> k,
                    publishedAt |-> itemPublishedAt(items[k], now).v]]]

\* a catch block that throws the error again
fetchFeedRethrows == [state |-> "rejected", articles |-> <<>>]

\* fetchFeed's catch: warn and return []
fetchFeedCatch == [state |-> "resolved", articles |-> <<>>]

\* What fetchFeed's promise settles with.  outcome is how the request ended:
\* "ok" is a 2xx response whose document holds the items; "non2xx" throws on
\* !response.ok; "neterror" and "timeout" make fetch throw; "badbody" is a
\* body that cannot be read or parsed.
FeedOutcomes == {"ok", "non2xx", "neterror", "badbody"}

fetchFeed(f, outcome, items, now) ==
  LET n == normalizeItems(f, items, now)
  IN  IF outcome = "ok" /\ ~n.threw
      THEN [state |-> "resolved", articles |-> n.articles]
      ELSE fetchFeedCatch

\* the timeout passed with the request at each call site, in milliseconds;
\* 0 where no signal is passed
requestTimeout(site) ==
  CASE site = "feed" -> 15000             \* fetchFeed
    [] site = "takeaway" -> 0             \* generateTakeaway
    [] site = "teams" -> 15000            \* sendWebhookNotifications
    [] site = "slack" -> 15000            \* sendWebhookNotifications

hasTimeout(site) == requestTimeout(site) > 0

InitNetwork ==
  /\ file = Absent
  /\ today = 2
  /\ call = NoCall
  /\ run = IdleRun
  /\ pub = IdlePub
  /\ fn = IdleFn
  /\ ovl = IdleOvl
  /\ \E key \in BOOLEAN, hooks \in SUBSET {"teams", "slack"},
        items \in [Feeds -> SeqsUpTo(ItemDates, MaxItems)],
        manual \in SeqsUpTo(ItemDates, 1) :
       /\ Len(items[1]) + Len(items[2]) <= MaxItems
       /\ net = [IdleNet EXCEPT !.pc = "start", !.key = key, !.hooks = hooks,
                                !.items = items, !.manual = manual,
                                !.feed = [f \in Feeds |-> IdleFeed]]

\* main: enabledFeeds.map(feed => fetchFeed(feed)): every fetchFeed runs up
\* to its await of fetch
FetchFeeds ==
  /\ net.pc = "start"
  /\ \E silent \in [Feeds -> BOOLEAN] :
       net' = [net EXCEPT !.pc = "feeds",
                          !.feed = [f \in Feeds |->
                                      [IdleFeed EXCEPT !.state = "pending",
                                                       !.silent = silent[f],
                                                       !.timer = hasTimeout("feed")]]]
  /\ UNCHANGED <<file, today, call, run, pub, fn, ovl>>

\* the rest of fetchFeed once its request has ended
FeedSettles(f, outcome) ==
  LET r == fetchFeed(f, outcome, net.items[f], today)
  IN  net' = [net EXCEPT !.feed[f].state = r.state,
                         !.feed[f].articles = r.articles,
                         !.feed[f].outcome = outcome]

FeedAnswers(f, outcome) ==
  /\ net.pc = "feeds"
  /\ net.feed[f].state = "pending"
  /\ ~net.feed[f].silent
  /\ FeedSettles(f, outcome)
  /\ UNCHANGED <<file, today, call, run, pub, fn, ovl>>

\* AbortSignal.timeout fires: fetch throws
FeedTimesOut(f) ==
  /\ net.pc = "feeds"
  /\ net.feed[f].state = "pending"
  /\ net.feed[f].timer
  /\ FeedSettles(f, "timeout")
  /\ UNCHANGED <<file, today, call, run, pub, fn, ovl>>

\* main from await Promise.all(feedPromises) to the call of generateHTML.  A
\* rejected promise or a throw while the manual entries are formatted ends
\* in main's catch: exit(1).  URLs are taken as distinct and the list as
\* shorter than the maximum (SpecPublic has both), so the list is the RSS
\* articles and then the manual ones.
Collect ==
  /\ net.pc = "feeds"
  /\ \A f \in Feeds : net.feed[f].state # "pending"
  /\ LET all == net.feed[1].articles \o net.feed[2].articles
         dates == [k \in 1..Len(net.manual) |->
                     manualPublishedAt(net.manual[k], today)]
         manual == [k \in 1..Len(net.manual) |->
                      [feed |-> 0, k |-> k, publishedAt |-> dates[k].v]]
         final == all \o manual
     IN  net' =
           IF \E f \in Feeds : net.feed[f].state = "rejected"
           THEN [net EXCEPT !.pc = "done", !.exit = "1"]
           ELSE IF \E k \in 1..Len(dates) : dates[k].threw
           THEN [net EXCEPT !.all = all, !.pc = "done", !.exit = "1"]
           ELSE IF final = <<>>
           THEN [net EXCEPT !.all = all, !.pc = "done", !.exit = "0"]
           ELSE [net EXCEPT !.all = all, !.final = final, !.pc = "html", !.i = 1]
  /\ UNCHANGED <<file, today, call, run, pub, fn, ovl>>

\* generateHTML's loop up to generateTakeaway's await of fetch; without a key
\* no request is sent
NextArticle ==
  /\ net.pc = "html"
  /\ \E silent \in BOOLEAN :
       net' =
         IF net.i > Len(net.final) THEN [net EXCEPT !.pc = "teamsgate"]
         ELSE IF ~net.key THEN [net EXCEPT !.i = @ + 1]
         ELSE [net EXCEPT !.pc = "takeaway", !.silent = silent,
                          !.timer = hasTimeout("takeaway")]
  /\ UNCHANGED <<file, today, call, run, pub, fn, ovl>>

\* writeOutput, then sendWebhookNotifications up to the Teams request
SendTeams ==
  /\ net.pc = "teamsgate"
  /\ \E silent \in BOOLEAN :
       net' =
         IF "teams" \in net.hooks
         THEN [net EXCEPT !.pc = "teams", !.silent = silent,
                          !.timer = hasTimeout("teams")]
         ELSE [net EXCEPT !.pc = "slackgate"]
  /\ UNCHANGED <<file, today, call, run, pub, fn, ovl>>

\* sendWebhookNotifications up to the Slack request, or to the end of main
SendSlack ==
  /\ net.pc = "slackgate"
  /\ \E silent \in BOOLEAN :
       net' =
         IF "slack" \in net.hooks
         THEN [net EXCEPT !.pc = "slack", !.silent = silent,
                          !.timer = hasTimeout("slack")]
         ELSE [net EXCEPT !.pc = "done", !.exit = "0"]
  /\ UNCHANGED <<file, today, call, run, pub, fn, ovl>>

\* the awaited request has ended, with an answer, an error or its timeout:
\* every way leads on (the fallback, the warning)
RequestEnds ==
  net' = CASE net.pc = "takeaway" ->
                [net EXCEPT !.pc = "html", !.i = @ + 1, !.silent = FALSE,
                            !.timer = FALSE]
           [] net.pc = "teams" ->
                [net EXCEPT !.pc = "slackgate", !.silent = FALSE,
                            !.timer = FALSE]
           [] net.pc = "slack" ->
                [net EXCEPT !.pc = "done", !.exit = "0", !.silent = FALSE,
                            !.timer = FALSE]

RequestAnswers ==
  /\ net.pc \in {"takeaway", "teams", "slack"}
  /\ ~net.silent
  /\ RequestEnds
  /\ UNCHANGED <<file, today, call, run, pub, fn, ovl>>

RequestTimesOut ==
  /\ net.pc \in {"takeaway", "teams", "slack"}
  /\ net.timer
  /\ RequestEnds
  /\ UNCHANGED <<file, today, call, run, pub, fn, ovl>>

NextNetwork ==
  \/ FetchFeeds
  \/ \E f \in Feeds, outcome \in FeedOutcomes : FeedAnswers(f, outcome)
  \/ \E f \in Feeds : FeedTimesOut(f)
  \/ Collect
  \/ NextArticle
  \/ SendTeams
  \/ SendSlack
  \/ RequestAnswers
  \/ RequestTimesOut

SpecNetwork == InitNetwork /\ [][NextNetwork]_vars

-----------------------------------------------------------------------------
(* SpecNormalize: normalizeArticle applied to one feed item, and main's    *)
(* formatting applied to one manual entry                                  *)

MaxPieces == 3     \* pieces of a title
MaxExcess == 2     \* characters a description is shorter or longer than the limit
MaxLinks == 2      \* candidates of a link that is an array

\* cleanDescription: if (cleaned.length > 300) cleaned.substring(0, 297) + '...'
BlurbLimit == 300
BlurbKept == 297

\* The values the XML parser gives a field of an item: a string, nothing, a
\* number (the text of the element is numeric), an object (the element has
\* attributes: href is its '@_href', text its '#text', type its '@_type',
\* Missing when absent) or an array of values (the element occurs more than
\* once).
TStr(s) ==
  [t |-> "str", s |-> s, href |-> Missing, text |-> Missing, type |-> Missing,
   elems |-> <<>>]
TUndef == [TStr(<<>>) EXCEPT !.t = "undef"]
TNum == [TStr(<<>>) EXCEPT !.t = "num"]
TObj(href, text, type) ==
  [TStr(<<>>) EXCEPT !.t = "obj", !.href = href, !.text = text, !.type = type]
TArr(elems) == [TStr(<<>>) EXCEPT !.t = "arr", !.elems = elems]

\* ToBoolean: '' and undefined are falsy; the numbers of the model are not 0
truthy(v) == IF v.t = "str" THEN v.s # <<>> ELSE v.t # "undef"

\* a || b
orElse(a, b) == IF truthy(a) THEN a ELSE b

\* typeof v === 'object', which holds for arrays too
typeofObject(v) == v.t \in {"obj", "arr"}

\* v['@_href'], v['#text'], v['@_type']: undefined unless v is an object that
\* has the property
propOf(v, p) == IF v.t = "obj" /\ p # Missing THEN TStr(p) ELSE TUndef
hrefOf(v) == propOf(v, v.href)
textOf(v) == propOf(v, v.text)
typeOf(v) == propOf(v, v.type)

Untitled == <<"U", "n", "t", "i", "t", "l", "e", "d">>
AviationNews == <<"A", "v", "i", "a", "t", "i", "o", "n", " ", "N", "e", "w", "s">>
TextHtml == <<"t", "e", "x", "t", "/", "h", "t", "m", "l">>
Ellipsis == <<".", ".", ".">>

\* the result of a function that may throw
Returns(s) == [threw |-> FALSE, s |-> s]
Throws == [threw |-> TRUE, s |-> <<>>]

\* cleanHeadline; title.replace is no function when title is no string
cleanHeadline(title) ==
  IF ~truthy(title) THEN Returns(AviationNews)
  ELSE IF title.t # "str" THEN Throws
  ELSE Returns(trim(collapseWhiteSpace(stripSourceSuffix(
                 decodeHtmlEntities(stripTags(title.s))))))

\* cleanDescription
cleanDescription(description) ==
  IF ~truthy(description) THEN Returns(<<>>)
  ELSE IF description.t # "str" THEN Throws
  ELSE LET cleaned == trim(collapseWhiteSpace(decodeHtmlEntities(
                        stripTags(description.s))))
       IN  Returns(IF Len(cleaned) > BlurbLimit
                   THEN SubSeq(cleaned, 1, BlurbKept) \o Ellipsis
                   ELSE cleaned)

\* normalizeArticle: the title (the alias dc:title is taken as absent)
titleOf(item) ==
  LET title == orElse(item.title, TStr(Untitled))
  IN  IF typeofObject(title) THEN orElse(textOf(title), TStr(Untitled))
      ELSE title

\* normalizeArticle: the description (the aliases summary, content and
\* content:encoded are taken as absent)
descriptionOf(item) ==
  LET description == orElse(item.description, TStr(<<>>))
  IN  IF typeofObject(description) THEN orElse(textOf(description), TStr(<<>>))
      ELSE description

\* link.find(l => l['@_type'] === 'text/html' || !l['@_type']): the index of
\* the element found, 0 for none
findHtmlLink(elems) ==
  LET IsHtml(l) == typeOf(l) = TStr(TextHtml) \/ ~truthy(typeOf(l))
  IN  IF \E k \in 1..Len(elems) : IsHtml(elems[k])
      THEN CHOOSE k \in 1..Len(elems) :
             IsHtml(elems[k]) /\ \A j \in 1..(k - 1) : ~IsHtml(elems[j])
      ELSE 0

\* normalizeArticle: the link, the statements in the order of the code
linkOf(item) ==
  LET link1 == orElse(item.link, TStr(<<>>))
      link2 == IF typeofObject(link1)
               THEN orElse(hrefOf(link1), orElse(textOf(link1), TStr(<<>>)))
               ELSE link1
      found == findHtmlLink(link2.elems)
      link3 == IF found # 0
               THEN orElse(hrefOf(link2.elems[found]), link2.elems[found])
               ELSE IF link2.elems = <<>> THEN TUndef ELSE link2.elems[1]
      link4 == IF typeofObject(link3) THEN orElse(hrefOf(link3), TStr(<<>>))
               ELSE link3
  IN  IF link2.t = "arr" THEN link4 ELSE link2

\* normalizeArticle: the article, or a throw
normalizeArticle(item, now) ==
  LET headline == cleanHeadline(titleOf(item))
      blurb == cleanDescription(descriptionOf(item))
      publishedAt == itemPublishedAt(item.date, now)
  IN  [threw |-> headline.threw \/ blurb.threw \/ publishedAt.threw,
       headline |-> headline.s, blurb |-> blurb.s, url |-> linkOf(item),
       publishedAt |-> publishedAt.v]

\* main, formattedManualArticles: blurb: article.blurb || '' and publishedAt
formatManualEntry(entry, now) ==
  LET publishedAt == manualPublishedAt(entry.date, now)
  IN  [threw |-> publishedAt.threw, blurb |-> orEmpty(entry.blurb),
       publishedAt |-> publishedAt.v]

\* the inputs
RECURSIVE Concat(_)
Concat(pieces) ==
  IF pieces = <<>> THEN <<>> ELSE Head(pieces) \o Concat(Tail(pieces))

TitlePieces ==
  {<<"J", "e", "t">>,
   <<" ">>,
   <<"-">>,
   <<"|">>,
   <<"<", "b", ">">>,
   <<"&", "l", "t", ";">>,
   <<"&", "a", "m", "p", ";">>,
   <<"b", ">">>,
   <<"C", "N", "N">>,
   <<"&", "n", "b", "s", "p", ";">>}

Titles == {Concat(ps) : ps \in SeqsUpTo(TitlePieces, MaxPieces)}

TitleValues ==
  {TUndef, TNum, TObj(Missing, Missing, Missing), TObj(Missing, <<"J", "e", "t">>, TextHtml)}
    \cup {TStr(s) : s \in Titles}

Fill(n) == [k \in 1..n |-> "a"]

DescriptionTexts ==
  {pre \o Fill(n) \o post :
     pre \in {<<>>, <<"<", "p", ">">>},
     post \in {<<>>, <<"&", "a", "m", "p", ";">>, <<" ", " ">>, <<"<", "/", "p", ">">>},
     n \in {0, 1} \cup ((BlurbLimit - MaxExcess)..(BlurbLimit + MaxExcess))}

DescriptionValues ==
  {TUndef, TNum, TObj(Missing, Fill(BlurbLimit + 1), TextHtml)}
    \cup {TStr(s) : s \in DescriptionTexts}

Hrefs == {<<"u", "1">>, <<"u", "2">>}

LinkCandidates ==
  {TObj(href, Missing, type) :
     href \in Hrefs, type \in {Missing, TextHtml, <<"t", "e", "x", "t", "/", "x", "m", "l">>}}

LinkValues ==
  {TUndef, TStr(<<>>), TStr(<<"u", "1">>), TObj(Missing, <<"u", "2">>, Missing)}
    \cup LinkCandidates
    \cup {TArr(cs) : cs \in SeqsUpTo(LinkCandidates, MaxLinks) \ {<<>>}}

BaseItem ==
  [title |-> TStr(<<"J", "e", "t">>), description |-> TStr(<<"a">>),
   link |-> TStr(<<"u", "1">>), date |-> 1]

Items ==
  {[BaseItem EXCEPT !.title = v] : v \in TitleValues}
    \cup {[BaseItem EXCEPT !.description = v] : v \in DescriptionValues}
    \cup {[BaseItem EXCEPT !.link = v] : v \in LinkValues}
    \cup {[BaseItem EXCEPT !.date = d] : d \in ItemDates}

ManualTexts ==
  [blurb : {Missing} \cup {Fill(n) : n \in {0, 1} \cup
              ((BlurbLimit - MaxExcess)..(BlurbLimit + MaxExcess))},
   date : ItemDates]

InitNormalize ==
  /\ NoProcess
  /\ \/ \E item \in Items :
          fn = [op |-> "normalize", done |-> FALSE, arg |-> item, out |-> <<>>]
     \/ \E entry \in ManualTexts :
          fn = [op |-> "manual", done |-> FALSE, arg |-> entry, out |-> <<>>]

NormalizeArticle ==
  /\ fn.op = "normalize" /\ ~fn.done
  /\ fn' = [fn EXCEPT !.done = TRUE, !.out = normalizeArticle(fn.arg, today)]
  /\ UNCHANGED <<file, today, call, run, pub, net, ovl>>

FormatManual ==
  /\ fn.op = "manual" /\ ~fn.done
  /\ fn' = [fn EXCEPT !.done = TRUE, !.out = formatManualEntry(fn.arg, today)]
  /\ UNCHANGED <<file, today, call, run, pub, net, ovl>>

NextNormalize == NormalizeArticle \/ FormatManual

SpecNormalize == InitNormalize /\ [][NextNormalize]_vars

-----------------------------------------------------------------------------
(* SpecDecode: decodeHtmlEntities applied to one text *)

MaxEntityPieces == 3   \* pieces of a text

EntityPieces ==
  {<<"&", "a", "m", "p", ";">>,
   <<"&", "l", "t", ";">>,
   <<"&", "#", "3", "8", ";">>,
   <<"&", "#", "x", "2", "6", ";">>,
   <<"a", "m", "p", ";">>,
   <<"l", "t", ";">>,
   <<"#", "3", "9", ";">>,
   <<"a">>,
   <<"&">>}

EntityTexts == {Concat(ps) : ps \in SeqsUpTo(EntityPieces, MaxEntityPieces)}

InitDecode ==
  /\ NoProcess
  /\ \E text \in EntityTexts :
       fn = [op |-> "decode", done |-> FALSE, arg |-> text, out |-> <<>>]

DecodeHtmlEntities ==
  /\ fn.op = "decode" /\ ~fn.done
  /\ fn' = [fn EXCEPT !.done = TRUE, !.out = decodeHtmlEntities(fn.arg)]
  /\ UNCHANGED <<file, today, call, run, pub, net, ovl>>

NextDecode == DecodeHtmlEntities

SpecDecode == InitDecode /\ [][NextDecode]_vars

-----------------------------------------------------------------------------
(* SpecOverlap: two analyst-mode runs at the same time, two processes that  *)
(* share dist/usage-counters.json and the cap, on one UTC day.  A step of   *)
(* a process is what it does up to its next access to the file: the         *)
(* readFileSync of canSpendGemini, the readFileSync of recordGeminiCalls    *)
(* and its writeFileSync.                                                   *)

MaxOverlapArticles == 2   \* articles of each of the two runs

Runs == {1, 2}

InitOverlap ==
  /\ today = 1
  /\ call = NoCall
  /\ run = IdleRun
  /\ pub = IdlePub
  /\ net = IdleNet
  /\ fn = IdleFn
  /\ file \in {Absent} \cup {CounterObject(1, NumV(c)) : c \in 0..MaxCount}
  /\ \E cap \in Caps, n \in [Runs -> 1..MaxOverlapArticles] :
       ovl = [cap |-> cap, start |-> file,
              proc |-> [p \in Runs |->
                          [pc |-> "check", n |-> n[p], i |-> 1,
                           counters |-> loadCounters(Absent),
                           issued |-> 0, recorded |-> 0]]]

\* main's loop up to the await: the cap is checked on the file as it is, and
\* generateAnalystBrief sends its request
CheckCap(p) ==
  /\ ovl.proc[p].pc = "check"
  /\ ovl' =
       IF ovl.proc[p].i > ovl.proc[p].n \/ ~canSpendGemini(file, NumV(1), ovl.cap)
       THEN [ovl EXCEPT !.proc[p].pc = "done"]
       ELSE [ovl EXCEPT !.proc[p].pc = "fetch", !.proc[p].issued = @ + 1]
  /\ UNCHANGED <<file, today, call, run, pub, net, fn>>

\* the request settles and recordGeminiCalls(1) starts: const counters =
\* loadCounters()
RecordLoads(p) ==
  /\ ovl.proc[p].pc = "fetch"
  /\ ovl' = [ovl EXCEPT !.proc[p].pc = "save",
                        !.proc[p].counters = loadCounters(file)]
  /\ UNCHANGED <<file, today, call, run, pub, net, fn>>

\* recordGeminiCalls(1) ends: counters.geminiCallsToday += count;
\* saveCounters(counters); the loop goes on to the next article
RecordSaves(p) ==
  /\ ovl.proc[p].pc = "save"
  /\ file' = saveCounters([ovl.proc[p].counters EXCEPT
                             !.geminiCallsToday = JSAdd(@, 1)])
  /\ ovl' = [ovl EXCEPT !.proc[p].pc = "check", !.proc[p].i = @ + 1,
                        !.proc[p].recorded = @ + 1]
  /\ UNCHANGED <<today, call, run, pub, net, fn>>

NextOverlap ==
  \E p \in Runs : CheckCap(p) \/ RecordLoads(p) \/ RecordSaves(p)

SpecOverlap == InitOverlap /\ [][NextOverlap]_vars

-----------------------------------------------------------------------------
(* SpecLimit: main's limit step applied to one combined list *)

MaxHigh == 3          \* high-priority manual articles of a combined list
MaxCandidates == 40   \* articles of a combined list
MaxSetting == 6       \* values of settings.maxArticlesInTicker, 0 for not set

\* a combined list of n articles as main builds it: the h high-priority
\* manual articles first
Candidates(h, n) ==
  [k \in 1..n |-> [id |-> k, priority |-> IF k <= h THEN "high" ELSE "normal"]]

InitLimit ==
  /\ NoProcess
  /\ \E h \in 0..MaxHigh, n \in 0..MaxCandidates, setting \in 0..MaxSetting :
       /\ h <= n
       /\ fn = [op |-> "limit", done |-> FALSE,
                arg |-> [combined |-> Candidates(h, n), setting |-> setting],
                out |-> <<>>]

\* main: const finalArticles = combinedArticles.slice(0, maxArticles)
Limit ==
  /\ fn.op = "limit" /\ ~fn.done
  /\ fn' = [fn EXCEPT !.done = TRUE,
                      !.out = finalArticles(fn.arg.combined, fn.arg.setting)]
  /\ UNCHANGED <<file, today, call, run, pub, net, ovl>>

NextLimit == Limit

SpecLimit == InitLimit /\ [][NextLimit]_vars

-----------------------------------------------------------------------------
(* Claims about the usage limiter *)

\* Today's count of a counter file on day `now`, after the day-rollover reset:
\* 0 unless the file is a counter dated `now`.  It is defined when that
\* counter's count is a number; a count of another type is no count (C8).
DatedToday(f, now) == f.kind = "object" /\ f.date = now
CountDefined(f, now) == DatedToday(f, now) => f.count.t = "num"
TodaysCount(f, now) == IF DatedToday(f, now) THEN f.count.v ELSE 0
ArgOr1(a) == IF a.t = "undef" THEN 1 ELSE a.v

\* an invocation of generateAnalystBrief that issued its request has returned
Returned == run.pc = "loop" /\ run.outcome \notin {"none", "nokey"}

\* C1 as stated: whenever generateAnalystBrief has issued its request and
\* returned, the persisted count is exactly 1 higher than today's count was
\* when it was called.
C1_CounterOneHigherAtReturn ==
  (Returned /\ CountDefined(run.atCall, run.callDay))
    => file = CounterObject(file.date,
                            NumV(TodaysCount(run.atCall, run.callDay) + 1))

\* C1 amended: every invocation that issues the request makes exactly one
\* record, whichever way the attempt ends; the persisted counter is then
\* dated the day of that record and is 1 higher than today's count of that
\* day was at the call, which is 1 higher than the count at the call when
\* the UTC date did not change between the call and the record.
C1_ExactlyOneRecordPerAttempt ==
  Returned =>
    /\ run.recorded = run.callRecorded + 1
    /\ CountDefined(run.atCall, run.dayAtRecord) =>
         file = CounterObject(run.dayAtRecord,
                              NumV(TodaysCount(run.atCall, run.dayAtRecord) + 1))
    /\ (CountDefined(run.atCall, run.callDay) /\ run.dayAtRecord = run.callDay) =>
         file.count = NumV(TodaysCount(run.atCall, run.callDay) + 1)

\* a response whose body failed to parse after the record was made, on a
\* counter that held 2 calls of today
C1_Witness ==
  /\ Returned
  /\ run.outcome = "parsefail"
  /\ run.atCall = CounterObject(run.callDay, NumV(2))
  /\ run.dayAtRecord = run.callDay
  /\ file.count = NumV(3)

\* C4: in an analyst-mode run during which the UTC date does not change, if
\* today's count is at most the cap when the run starts, it is at most the
\* cap after every step, and the requests issued are at most cap minus the
\* starting count (and at most the cap whatever the file held).
C4_HardDailyCap ==
  (run.pc # "idle" /\ ~run.ticked) =>
    /\ run.issued <= run.cap
    /\ (CountDefined(run.start, run.startDay)
        /\ TodaysCount(run.start, run.startDay) <= run.cap) =>
         /\ CountDefined(file, today)
         /\ TodaysCount(file, today) <= run.cap
         /\ run.issued <= run.cap - TodaysCount(run.start, run.startDay)

\* a run that spent the whole remaining quota of 2 and was stopped by the cap
C4_Witness ==
  /\ run.pc = "done"
  /\ ~run.ticked
  /\ run.start = CounterObject(run.startDay, NumV(1))
  /\ run.cap = 3
  /\ run.issued = 2
  /\ run.capReached
  /\ file.count = NumV(3)

\* C5: canSpend(callsNeeded, cap) returns true iff today's count +
\* callsNeeded <= cap (callsNeeded defaults to 1); with cap 5 and count 4,
\* canSpend(1, 5) is true and canSpend(2, 5) is false, and with count 5
\* (after record(1)) canSpend(1, 5) is false.
C5_CanSpendIffFits ==
  (call.op = "canSpend" /\ CountDefined(call.pre, call.now)) =>
    /\ call.retB
         = (TodaysCount(call.pre, call.now) + ArgOr1(call.n) <= call.cap)
    /\ (call.cap = 5 /\ call.pre = CounterObject(call.now, NumV(4))) =>
         /\ call.n = NumV(1) => call.retB
         /\ call.n = NumV(2) => ~call.retB
    /\ (call.cap = 5 /\ call.pre = CounterObject(call.now, NumV(5))
        /\ call.n = NumV(1)) => ~call.retB

\* canSpend(2, 5) on a count of 4 returned false
C5_Witness ==
  /\ call.op = "canSpend"
  /\ call.pre = CounterObject(call.now, NumV(4))
  /\ call.cap = 5
  /\ call.n = NumV(2)
  /\ ~call.retB

\* C6: record(count) adds count to today's count, and when it has returned
\* the file holds {date: today, count: the value returned}.
C6_RecordPersistsBeforeReturn ==
  (call.op = "record" /\ CountDefined(call.pre, call.now)) =>
    /\ call.retV = NumV(TodaysCount(call.pre, call.now) + ArgOr1(call.n))
    /\ file = CounterObject(call.now, call.retV)

\* record(2) on a count of 3 returned 5, and the file holds 5
C6_Witness ==
  /\ call.op = "record"
  /\ call.pre = CounterObject(call.now, NumV(3))
  /\ call.n = NumV(2)
  /\ call.retV = NumV(5)
  /\ file = CounterObject(call.now, NumV(5))

\* C7: when the stored date differs from the current UTC date, canSpend(n,
\* cap) returns n <= cap, remaining(cap) returns max(0, cap), callsToday
\* returns 0, and record(k) persists {date: today, count: k} and returns k.
StoredDateDiffers(f, now) == f.kind = "object" /\ f.date # now

AsIfZero ==
  /\ call.op = "canSpend" => call.retB = (ArgOr1(call.n) <= call.cap)
  /\ call.op = "remaining" => call.retV = NumV(call.cap)
  /\ call.op = "record" =>
       /\ call.retV = NumV(ArgOr1(call.n))
       /\ file = CounterObject(call.now, NumV(ArgOr1(call.n)))

C7_DayRolloverResets ==
  (call.op # "none" /\ StoredDateDiffers(call.pre, call.now)) =>
    /\ AsIfZero
    /\ call.op = "callsToday" => call.retV = NumV(0)

\* record(1) on yesterday's counter of 4 calls left {today, 1}
C7_Witness ==
  /\ call.op = "record"
  /\ call.now > 0
  /\ call.pre = CounterObject(call.now - 1, NumV(4))
  /\ call.n = NumV(1)
  /\ file = CounterObject(call.now, NumV(1))

\* C8 as stated: for every content of the counter file that is no counter of
\* today (absent, not valid JSON, JSON that is no object, or an object dated
\* today whose count is missing or no number), canSpend, record and
\* remaining compute from a count of 0.
CorruptOrMissing(f, now) ==
  \/ f.kind # "object"
  \/ DatedToday(f, now) /\ f.count.t # "num"

C8_CorruptStateIsZero ==
  (call.op # "none" /\ CorruptOrMissing(call.pre, call.now)) => AsIfZero

-----------------------------------------------------------------------------
(* Claims about the public pipeline *)

\* generateTakeaway is between attempts
BetweenAttempts == pub.pc \in {"html", "write", "done"}

\* C2: generateTakeaway makes exactly one quota-consuming record per
\* attempted external call: between attempts, the counter file holds the
\* count the run started with plus the number of requests it has sent.
C2_OneRecordPerTakeawayAttempt ==
  BetweenAttempts =>
    file = CounterObject(today, NumV(TodaysCount(pub.start, today) + pub.issued))

\* C3: every external summarization request, of generateTakeaway and of
\* generateAnalystBrief, is sent only after a canSpend(1, cap) check of the
\* same run returned true with no record made since.
C3_EveryRequestGuarded ==
  /\ run.pc = "fetch" => run.guard
  /\ pub.pc = "fetch" => pub.guard

\* C9: every manual article with a pre-set takeaway that is in the final
\* list has that takeaway in the output.
C9_PresetTakeawayKept ==
  \A j \in 1..Len(pub.processed) :
    (pub.final[j].src = "manual" /\ pub.final[j].takeaway # "null")
      => pub.processed[j].takeaway = pub.final[j].takeaway

\* the manual entries as articles, those of high priority and those of
\* another priority whose URL no RSS article has, in input order
RECURSIVE ManualOf(_, _, _)
ManualOf(manual, high, rssUrls) ==
  IF manual = <<>> THEN <<>>
  ELSE LET a == Head(manual)
           wanted == IF high THEN a.priority = "high"
                     ELSE a.priority # "high" /\ a.url \notin rssUrls
       IN  (IF wanted THEN <<formatManual(a)>> ELSE <<>>)
             \o ManualOf(Tail(manual), high, rssUrls)

\* s holds RSS articles of the input only, newest first, no URL twice, and
\* every URL of the input
IsDedupedRss(s, rss) ==
  /\ \A k \in 1..Len(s) : \E m \in 1..Len(rss) : s[k] = rss[m]
  /\ \A k, m \in 1..Len(s) : k < m =>
       /\ s[k].publishedAt >= s[m].publishedAt
       /\ s[k].url # s[m].url
  /\ {s[k].url : k \in 1..Len(s)} = {rss[m].url : m \in 1..Len(rss)}

\* C10: the combined list is the high-priority manual articles in input
\* order, then the deduplicated RSS articles newest first, then the manual
\* articles of another priority whose URL no RSS article has, in input order.
C10_MergeOrder ==
  pub.pc \notin {"idle", "start"} =>
    LET rssUrls == {pub.rss[m].url : m \in 1..Len(pub.rss)}
        high == ManualOf(pub.manual, TRUE, rssUrls)
        normal == ManualOf(pub.manual, FALSE, rssUrls)
        c == pub.combined
    IN  /\ Len(c) >= Len(high) + Len(normal)
        /\ SubSeq(c, 1, Len(high)) = high
        /\ SubSeq(c, Len(c) - Len(normal) + 1, Len(c)) = normal
        /\ IsDedupedRss(SubSeq(c, Len(high) + 1, Len(c) - Len(normal)), pub.rss)

\* a normal entry listed before a high-priority one that shares its URL with
\* the RSS article: high, RSS, normal
C10_Witness ==
  /\ pub.pc \notin {"idle", "start"}
  /\ Len(pub.manual) = 2 /\ Len(pub.rss) = 1
  /\ pub.manual[1].priority # "high" /\ pub.manual[2].priority = "high"
  /\ pub.manual[2].url = pub.rss[1].url /\ pub.manual[1].url # pub.rss[1].url
  /\ Len(pub.combined) = 3
  /\ pub.combined[1].priority = "high"
  /\ pub.combined[2].src = "rss"
  /\ pub.combined[3].priority = "normal"

\* the RSS articles of the combined list: what the dedup step left
RssOf(combined) == LET IsRss(a) == a.src = "rss" IN SelectSeq(combined, IsRss)

\* how many RSS articles of the input have URL u
CountUrl(rss, u) == Cardinality({m \in 1..Len(rss) : rss[m].url = u})

\* C11: after the dedup step no two RSS articles share a URL; the article
\* kept for a URL is one of the input that no other article of that URL is
\* newer than, and it stands where the newest-first order puts it; of N
\* articles of which M share one URL and the others are pairwise distinct,
\* N - M + 1 remain, one of them for that URL.
C11_DedupKeepsFirstByDate ==
  pub.pc \notin {"idle", "start"} =>
    LET d == RssOf(pub.combined)
        rss == pub.rss
        N == Len(rss)
    IN  /\ \A k, m \in 1..Len(d) : k # m => d[k].url # d[m].url
        /\ \A k \in 1..Len(d) :
             /\ \E m \in 1..N : rss[m] = d[k]
             /\ \A m \in 1..N :
                  rss[m].url = d[k].url => rss[m].publishedAt <= d[k].publishedAt
        /\ \A k, m \in 1..Len(d) : k < m => d[k].publishedAt >= d[m].publishedAt
        /\ \A u \in Urls :
             LET M == CountUrl(rss, u)
             IN  (M >= 1 /\ \A v \in Urls \ {u} : CountUrl(rss, v) <= 1) =>
                   /\ Len(d) = N - M + 1
                   /\ Cardinality({k \in 1..Len(d) : d[k].url = u}) = 1

\* three RSS articles, the first and the last of one URL and the last one
\* newer: two remain, the newer one for that URL
C11_Witness ==
  /\ pub.pc \notin {"idle", "start"}
  /\ Len(pub.rss) = 3
  /\ pub.rss[1].url = pub.rss[3].url /\ pub.rss[2].url # pub.rss[1].url
  /\ pub.rss[1].publishedAt < pub.rss[3].publishedAt
  /\ Len(RssOf(pub.combined)) = 2
  /\ \E k \in 1..2 : RssOf(pub.combined)[k] = pub.rss[3]

\* C12: the final list is the first min(max, length) articles of the combined
\* list, max being the configured maxArticlesInTicker and 36 when it is not
\* configured; every high-priority manual article is in the final list when
\* they are at most max; with max = 5 and 10 candidates whose first 2 are
\* high-priority manual, the final list has 5 entries and holds both.
C12_TruncationTrimsTail ==
  (fn.op = "limit" /\ fn.done) =>
    LET c == fn.arg.combined
        max == IF fn.arg.setting = 0 THEN 36 ELSE fn.arg.setting
        kept == IF max < Len(c) THEN max ELSE Len(c)
        high == {k \in 1..Len(c) : c[k].priority = "high"}
    IN  /\ Len(fn.out) = kept
        /\ \A k \in 1..kept : fn.out[k] = c[k]
        /\ Cardinality(high) <= max =>
             \A k \in high : \E j \in 1..Len(fn.out) : fn.out[j] = c[k]
        /\ (max = 5 /\ Len(c) = 10 /\ {1, 2} \subseteq high) =>
             /\ Len(fn.out) = 5
             /\ \E j \in 1..5 : fn.out[j] = c[1]
             /\ \E j \in 1..5 : fn.out[j] = c[2]

\* 10 candidates whose first 2 are high-priority manual, limited to 5
C12_Witness ==
  /\ fn.op = "limit" /\ fn.done
  /\ fn.arg.setting = 5
  /\ Len(fn.arg.combined) = 10
  /\ fn.arg.combined[2].priority = "high"
  /\ fn.arg.combined[3].priority # "high"
  /\ Len(fn.out) = 5
  /\ fn.out[2] = fn.arg.combined[2]

\* 37 candidates and no configured maximum: 36 are kept
C12_WitnessDefault ==
  /\ fn.op = "limit" /\ fn.done
  /\ fn.arg.setting = 0
  /\ Len(fn.arg.combined) = 37
  /\ Len(fn.out) = 36

-----------------------------------------------------------------------------
(* Claims about the fallback takeaway *)

\* the rules of the cascade in the order the claim gives: the categories and
\* the keywords that make a rule match, and its sentence
FallbackRules ==
  <<
    [categories |-> {"safety"},
     keywords |-> {<<"s", "a", "f", "e", "t", "y">>, <<"c", "r", "a", "s", "h">>, <<"i", "n", "c", "i", "d", "e", "n", "t">>},
     sentence |-> "Safety implications warrant industry attention."],
    [categories |-> {"regulatory"},
     keywords |-> {<<"f", "a", "a">>, <<"e", "a", "s", "a">>, <<"r", "e", "g", "u", "l", "a", "t", "i", "o", "n">>},
     sentence |-> "Regulatory changes may affect industry operations."],
    [categories |-> {"evtol"},
     keywords |-> {<<"e", "v", "t", "o", "l">>, <<"a", "i", "r", " ", "t", "a", "x", "i">>, <<"u", "r", "b", "a", "n", " ", "a", "i", "r">>},
     sentence |-> "Urban air mobility advances toward commercial reality."],
    [categories |-> {"drones"},
     keywords |-> {<<"d", "r", "o", "n", "e">>, <<"u", "a", "s">>, <<"u", "n", "m", "a", "n", "n", "e", "d">>},
     sentence |-> "Drone technology continues to reshape aviation operations."],
    [categories |-> {"electric"},
     keywords |-> {<<"e", "l", "e", "c", "t", "r", "i", "c">>, <<"h", "y", "b", "r", "i", "d">>, <<"s", "u", "s", "t", "a", "i", "n", "a", "b", "l", "e">>},
     sentence |-> "Sustainable aviation technology gains momentum."],
    [categories |-> {},
     keywords |-> {<<"b", "o", "e", "i", "n", "g">>},
     sentence |-> "Boeing developments impact global aviation supply chain."],
    [categories |-> {},
     keywords |-> {<<"a", "i", "r", "b", "u", "s">>},
     sentence |-> "Airbus activity reflects European aerospace trends."],
    [categories |-> {"aerospace"},
     keywords |-> {<<"n", "a", "s", "a">>, <<"s", "p", "a", "c", "e">>},
     sentence |-> "Aerospace developments expand industry horizons."],
    [categories |-> {"military"},
     keywords |-> {},
     sentence |-> "Military aviation advances influence broader industry."],
    [categories |-> {"commercial"},
     keywords |-> {<<"a", "i", "r", "l", "i", "n", "e">>, <<"a", "i", "r", "p", "o", "r", "t">>},
     sentence |-> "Commercial aviation dynamics shape travel industry."],
    [categories |-> {"business-aviation"},
     keywords |-> {},
     sentence |-> "Business aviation sector shows evolving market trends."]
  >>

\* C13: createFallbackTakeaway returns the sentence of the first rule, in the
\* order safety, regulatory, eVTOL, drone, sustainability, Boeing, Airbus,
\* aerospace, military, commercial, business-aviation, that matches the
\* article's category or its lower-cased headline and blurb, and the generic
\* sentence if and only if no rule matches; category 'safety' yields the
\* safety sentence.
C13_FirstMatchingRuleWins ==
  (fn.op = "fallback" /\ fn.done) =>
    LET a == fn.arg
        text == toLowerCase(a.headline \o <<" ">> \o orEmpty(a.blurb))
        Matches(r) == \/ a.category \in FallbackRules[r].categories
                      \/ \E kw \in FallbackRules[r].keywords : includes(text, kw)
        matching == {r \in 1..Len(FallbackRules) : Matches(r)}
        generic == "Industry developments to monitor closely."
    IN  /\ matching # {} =>
             \E r \in matching :
               /\ \A q \in matching : r <= q
               /\ fn.out = FallbackRules[r].sentence
        /\ (fn.out = generic) <=> (matching = {})
        /\ a.category = "safety" =>
             fn.out = "Safety implications warrant industry attention."

\* an article of category military whose headline names Airbus and an
\* airport: the Airbus rule is the first of the three that match
C13_Witness ==
  /\ fn.op = "fallback" /\ fn.done
  /\ fn.arg.category = "military"
  /\ fn.arg.headline = Join(<<<<"a", "i", "r", "p", "o", "r", "t">>, <<"a", "i", "r", "b", "u", "s">>>>)
  /\ fn.arg.blurb = Missing
  /\ fn.out = "Airbus activity reflects European aerospace trends."

\* the response carries no usable text: none, no string, or only white space
NoUsableText(response) ==
  \/ response.kind # "json"
  \/ response.text \in {Missing, NotAString}
  \/ trim(response.text) = <<>>

\* C14: generateTakeaway never rejects; when the credential is absent, the
\* request fails, the response is non-2xx or malformed, or it carries no
\* usable text, the takeaway is the fallback sentence of the article; the
\* takeaway is never the empty string.
C14_FailuresFallBack ==
  (fn.op = "takeaway" /\ fn.done) =>
    LET r == fn.arg.response
    IN  /\ fn.out.state = "resolved"
        /\ (~fn.arg.key \/ r.kind \in {"throws", "badjson"} \/ ~r.ok
            \/ NoUsableText(r)) =>
             /\ fn.out.fallback
             /\ fn.out.sentence = createFallbackTakeaway(fn.arg.article)
        /\ fn.out.fallback => fn.out.sentence # ""
        /\ ~fn.out.fallback => fn.out.text # <<>>

-----------------------------------------------------------------------------
(* Claims about the requests of the public run *)

\* main has the results of all feeds
FeedsCollected == net.pc \notin {"idle", "start", "feeds"}

\* C15: fetchFeed never rejects; a feed whose request ends in a network
\* error, a timeout, a non-2xx status or an unreadable body yields an empty
\* list for that feed only: once all feeds have settled the run goes on with
\* allArticles holding, in feed order, the articles of every other feed.
C15_FeedFailureIsolated ==
  /\ \A f \in Feeds :
       /\ net.feed[f].state # "rejected"
       /\ net.feed[f].outcome \in {"non2xx", "neterror", "badbody", "timeout"} =>
            net.feed[f].state = "resolved" /\ net.feed[f].articles = <<>>
  /\ FeedsCollected =>
       /\ net.all = net.feed[1].articles \o net.feed[2].articles
       /\ \A f \in Feeds :
            (/\ net.feed[f].outcome = "ok"
             /\ \A k \in 1..Len(net.items[f]) : net.items[f][k] # InvalidDate) =>
              /\ Len(net.feed[f].articles) = Len(net.items[f])
              /\ \A k \in 1..Len(net.items[f]) :
                   \E j \in 1..Len(net.all) :
                     net.all[j].feed = f /\ net.all[j].k = k

\* the first feed timed out, the second one answered with two items: both
\* are collected
C15_Witness ==
  /\ FeedsCollected
  /\ net.feed[1].outcome = "timeout"
  /\ Len(net.items[1]) = 0
  /\ net.feed[2].outcome = "ok"
  /\ Len(net.items[2]) = 2
  /\ Len(net.all) = 2
  /\ net.all[1].feed = 2 /\ net.all[2].feed = 2

\* the instant an article gets for date d when the run is at instant now
DateOrNow(d, now) == IF d \in {MissingDate, InvalidDate} THEN now ELSE d

\* C16: date extraction never throws: every item of a feed that answered
\* yields an article, with its date or, when the date is missing or cannot
\* be parsed, the current time; the same holds for the manual entries, and
\* the run is not ended by a date.
C16_BadDateBecomesNow ==
  /\ \A f \in Feeds :
       net.feed[f].outcome = "ok" =>
         /\ Len(net.feed[f].articles) = Len(net.items[f])
         /\ \A k \in 1..Len(net.items[f]) :
              net.feed[f].articles[k].publishedAt
                = DateOrNow(net.items[f][k], today)
  /\ FeedsCollected =>
       /\ net.exit # "1"
       /\ \A k \in 1..Len(net.manual) :
            \E j \in 1..Len(net.final) :
              /\ net.final[j].feed = 0 /\ net.final[j].k = k
              /\ net.final[j].publishedAt = DateOrNow(net.manual[k], today)

\* C17: every outbound request of a run carries a timeout: whenever a feed
\* fetch, a summarization request or a webhook post is awaited, its timeout is
\* pending, so that a request to an endpoint that never answers still ends.
C17_EveryRequestCarriesTimeout ==
  /\ \A f \in Feeds : net.feed[f].state = "pending" => net.feed[f].timer
  /\ net.pc \in {"takeaway", "teams", "slack"} => net.timer

-----------------------------------------------------------------------------
(* Claims about the normalizer *)

\* an article made of a feed item, an article made of a manual entry
Normalized == fn.op = "normalize" /\ fn.done /\ ~fn.out.threw
Formatted == fn.op = "manual" /\ fn.done /\ ~fn.out.threw

\* C18: every article, whether it came from a feed or from a manual entry,
\* has a blurb of at most 300 characters; a longer description is cut to 297
\* characters followed by the three-character ellipsis marker.
C18_BlurbAtMostLimit ==
  /\ (Normalized \/ Formatted) => Len(fn.out.blurb) <= BlurbLimit
  /\ Normalized =>
       \A n \in (BlurbLimit + 1)..(BlurbLimit + MaxExcess) :
         fn.arg.description = TStr(Fill(n))
           => fn.out.blurb = Fill(BlurbKept) \o Ellipsis

\* the part of C18 about feed items alone
C18_FeedBlurbAtMostLimit ==
  Normalized =>
    /\ Len(fn.out.blurb) <= BlurbLimit
    /\ \A n \in (BlurbLimit + 1)..(BlurbLimit + MaxExcess) :
         fn.arg.description = TStr(Fill(n))
           => fn.out.blurb = Fill(BlurbKept) \o Ellipsis

\* a feed description one character over the limit was cut
C18_FeedWitness ==
  /\ Normalized
  /\ fn.arg.description = TStr(Fill(BlurbLimit + 1))
  /\ fn.out.blurb = Fill(BlurbKept) \o Ellipsis

\* the item's date and description are such that normalizeArticle does not
\* throw on their account (C16 is about the date)
DateAndDescriptionFine ==
  /\ ~itemPublishedAt(fn.arg.date, today).threw
  /\ ~cleanDescription(descriptionOf(fn.arg)).threw

\* C19: the normalizer yields one record per feed item, and every record has
\* a non-empty headline: an absent title defaults to a placeholder, and
\* cleaning never reduces a headline to the empty string.
C19_HeadlineNeverEmpty ==
  (fn.op = "normalize" /\ fn.done /\ DateAndDescriptionFine) =>
    /\ ~fn.out.threw
    /\ fn.out.headline # <<>>
    /\ fn.arg.title = TUndef => fn.out.headline = Untitled

\* the link of a feed item as C20 words it
RECURSIVE FirstHtmlOrUntyped(_)
FirstHtmlOrUntyped(candidates) ==
  IF candidates = <<>> THEN 0
  ELSE IF Head(candidates).type \in {TextHtml, Missing} THEN 1
  ELSE LET k == FirstHtmlOrUntyped(Tail(candidates))
       IN  IF k = 0 THEN 0 ELSE k + 1

\* C20: when an item's link is an array of candidates, the URL is the href of
\* the first candidate whose type is text/html or that has no type, and
\* otherwise the href of the first candidate; when the link is one object
\* bearing attributes the URL is its href; when it is a plain string the URL
\* is that string.
C20_LinkExtraction ==
  Normalized =>
    LET link == fn.arg.link
        k == FirstHtmlOrUntyped(link.elems)
    IN  /\ link.t = "arr" =>
             fn.out.url = TStr(link.elems[IF k = 0 THEN 1 ELSE k].href)
        /\ (link.t = "obj" /\ link.href # Missing) => fn.out.url = TStr(link.href)
        /\ link.t = "str" => fn.out.url = link

\* the parts of C20 about a single object and about a plain string
C20_ObjectAndStringLinks ==
  Normalized =>
    LET link == fn.arg.link
    IN  /\ (link.t = "obj" /\ link.href # Missing) => fn.out.url = TStr(link.href)
        /\ link.t = "str" => fn.out.url = link

\* every link that is an array gives the empty URL
C20_ArrayLinkGivesEmptyUrl ==
  (Normalized /\ fn.arg.link.t = "arr") => fn.out.url = TStr(<<>>)

-----------------------------------------------------------------------------
(* Claims about entity decoding *)

\* a text decoded in one pass from left to right: an entity of the text is
\* replaced by its character, and the scan goes on after the entity
RECURSIVE DecodedOnce(_)
DecodedOnce(text) ==
  IF text = <<>> THEN <<>>
  ELSE LET dec == DropFirst(text, 2)
           nd == RunLength(dec, DigitChars)
           hex == DropFirst(text, 3)
           nh == RunLength(hex, HexDigitChars)
           named == {k \in 1..Len(NamedEntities) :
                       StartsWith(text, NamedEntities[k].entity)}
       IN  IF /\ StartsWith(text, <<"&", "#">>)
              /\ nd >= 1 /\ Len(dec) > nd /\ dec[nd + 1] = ";"
           THEN <<fromCharCode(NumberOf(SubSeq(dec, 1, nd), 10))>>
                  \o DecodedOnce(DropFirst(dec, nd + 1))
           ELSE IF /\ StartsWith(text, <<"&", "#", "x">>)
                   /\ nh >= 1 /\ Len(hex) > nh /\ hex[nh + 1] = ";"
           THEN <<fromCharCode(NumberOf(SubSeq(hex, 1, nh), 16))>>
                  \o DecodedOnce(DropFirst(hex, nh + 1))
           ELSE IF named # {}
           THEN LET e == NamedEntities[CHOOSE k \in named : TRUE]
                IN  e.char \o DecodedOnce(DropFirst(text, Len(e.entity)))
           ELSE <<Head(text)>> \o DecodedOnce(Tail(text))

Decoded == fn.op = "decode" /\ fn.done
AmpAmp == <<"&", "a", "m", "p", ";", "a", "m", "p", ";">>
Amp == <<"&", "a", "m", "p", ";">>

\* C21: decodeHtmlEntities leaves a text without entity unchanged, decodes
\* &amp;amp; to &amp;, and for every input decodes in one pass: an entity
\* that exists only as the result of decoding another entity is not decoded
\* again.
C21_DecodingIsOnePass ==
  Decoded =>
    /\ DecodedOnce(fn.arg) = fn.arg => fn.out = fn.arg
    /\ fn.arg = AmpAmp => fn.out = Amp
    /\ fn.out = DecodedOnce(fn.arg)

\* the parts of C21 about a text without entity and about &amp;amp;
C21_CleanTextAndAmpAmp ==
  Decoded =>
    /\ DecodedOnce(fn.arg) = fn.arg => fn.out = fn.arg
    /\ fn.arg = AmpAmp => fn.out = Amp

\* &amp;amp; was decoded to &amp;
C21_AmpAmpWitness == Decoded /\ fn.arg = AmpAmp /\ fn.out = Amp

\* &amp;lt; was decoded twice, to <
C21_DecodedTwiceWitness ==
  Decoded /\ fn.arg = <<"&", "a", "m", "p", ";", "l", "t", ";">> /\ fn.out = <<"<">>

-----------------------------------------------------------------------------
(* Claims about the analyst-mode loop and about overlapping runs *)

\* C22: in an analyst-mode run, once canSpend(1, cap) has returned false no
\* further request is issued in that run, the remaining articles get no
\* brief, the cap-reached warning is emitted at most once, and the run goes
\* on to the delivery step.
C22_CapReachedIsSkipSignal ==
  /\ [](run.warnings <= 1)
  /\ [](run.capReached =>
          /\ run.pc \in {"deliver", "done"}
          /\ run.warnings = 1
          /\ Len(run.briefs) = run.i - 1)
  /\ [][run.capReached =>
          /\ run'.capReached
          /\ run'.issued = run.issued
          /\ run'.briefs = run.briefs
          /\ run'.warnings = run.warnings]_vars

\* a run of 3 articles met the cap before its second article: one request,
\* one brief slot filled, one warning, and the run ended after the delivery
C22_Witness ==
  /\ run.pc = "done"
  /\ run.capReached
  /\ run.n = 3
  /\ run.issued = 1
  /\ Len(run.briefs) = 1
  /\ run.warnings = 1

\* the requests of a loop that were sent and have not completed: with a key
\* every article handled so far had its request, and an article is put on
\* the list of the loop when its request has completed
InFlightAnalyst == IF run.key THEN run.issued - Len(run.briefs) ELSE 0
InFlightPublic == IF pub.key THEN pub.issued - Len(pub.processed) ELSE 0

\* C23: in generateHTML and in the analyst-mode loop at most one
\* summarization request is in flight at any time, and the record and the
\* next canSpend check, for article i+1, happen only after the request for
\* article i has completed.
C23_OneRequestAtATime ==
  /\ [](InFlightAnalyst \in {0, 1} /\ InFlightPublic \in {0, 1})
  /\ [][/\ run'.issued > run.issued => InFlightAnalyst = 0
        /\ pub'.issued > pub.issued => InFlightPublic = 0
        /\ LoopStep => InFlightAnalyst = 0
        /\ run'.recorded > run.recorded =>
             /\ InFlightAnalyst = 1
             /\ Len(run.briefs) = run.i - 1]_vars

\* the analyst-mode loop is at its third request, the two before it completed
C23_WitnessAnalyst ==
  run.pc = "fetch" /\ run.issued = 3 /\ Len(run.briefs) = 2 /\ run.recorded = 2

\* generateHTML is at its second request, the first one completed
C23_Witness ==
  pub.pc = "fetch" /\ pub.issued = 2 /\ Len(pub.processed) = 1

\* the two runs of SpecOverlap: whether they run, the requests they sent, the
\* records they made, and today's count when they started
Overlapping == ovl.proc # <<>>
OverlapIssued == ovl.proc[1].issued + ovl.proc[2].issued
OverlapRecorded == ovl.proc[1].recorded + ovl.proc[2].recorded
OverlapStart == TodaysCount(ovl.start, today)

\* C24: when two runs that share the counter file and the cap interleave
\* their canSpend, request and record steps in any order, the requests
\* issued on the day exceed the cap by at most one.
C24_OverrunAtMostOne ==
  (Overlapping /\ OverlapStart <= ovl.cap) =>
    OverlapStart + OverlapIssued <= ovl.cap + 1

\* both runs sent two requests under a cap of 2
C24_OverrunByTwoWitness ==
  /\ Overlapping
  /\ OverlapStart = 0
  /\ ovl.cap = 2
  /\ OverlapIssued = 4

\* no process is between the load and the save of a record
NoRecordUnderWay == \A p \in Runs : ovl.proc[p].pc # "save"

\* C25: when two processes each call record(1) against the same counter
\* file on the same UTC day, the persisted count ends at the initial count
\* + 2 under every interleaving of their load and save steps (in general, at
\* the initial count + the records made).
C25_NoRecordLost ==
  (Overlapping /\ NoRecordUnderWay) =>
    /\ OverlapRecorded > 0 =>
         file = CounterObject(today, NumV(OverlapStart + OverlapRecorded))
    /\ OverlapRecorded = 0 => file = ovl.start

\* both processes made one record and the file holds the initial count + 1
C25_LostRecordWitness ==
  /\ Overlapping
  /\ \A p \in Runs : ovl.proc[p].recorded = 1 /\ ovl.proc[p].pc = "done"
  /\ file = CounterObject(today, NumV(OverlapStart + 1))

-----------------------------------------------------------------------------
(* Claims about the frame of the limiter's operations *)

====
